---- MODULE Spec2Model ----
(***************************************************************************)
(* Session lifecycle of documind: the durable session store                *)
(* (src/src/notes_manager.py, PersistentStorageManager) and the request    *)
(* handlers with their in-memory session cache (src/app.py).               *)
(*                                                                         *)
(* The specifications share the definitions of the store methods and of    *)
(* the handlers:                                                           *)
(*   StoreSpec  the public methods of PersistentStorageManager called      *)
(*              with arbitrary arguments, one transaction per call;        *)
(*   Spec       the Flask request handlers of app.py, each request run to  *)
(*              completion before the next one starts, and the restart of  *)
(*              the process, which empties the cache;                      *)
(*   OpenSpec   the process started on a workspace.db written by an        *)
(*              earlier version: the migration of _init_database, then     *)
(*              the handlers;                                              *)
(*   ConcSpec   the handlers served by several threads, their statements   *)
(*              interleaved;                                               *)
(*   RaceSpec   the threads of ConcSpec with all their requests on one     *)
(*              session;                                                   *)
(*   PdfSpec    one upload batch given to extract_pdf_text and to          *)
(*              process_documents;                                         *)
(*   WorkspaceSpec  export_workspace and import_workspace on a store of    *)
(*              notes and chat sessions.                                   *)
(*                                                                         *)
(* Every step records in `call` which call or request it was, with its     *)
(* arguments and its result, so that a statement about one call is a       *)
(* statement about the steps whose call' names it.                         *)
(*                                                                         *)
(* Text (titles, queries, filenames) is a sequence of one-character        *)
(* strings, so that slicing ([:50]) and substring tests ("Local" in title) *)
(* are computed as the code computes them.  uuid4() values are numbered in *)
(* order of generation; a caller can only pass an id that was generated    *)
(* before, or a string that is no generated id (BogusId).                  *)
(***************************************************************************)
EXTENDS Integers, Sequences, FiniteSets, TLC

\* ------------------------------------------------------------------ bounds
MaxIds == 2        \* session ids uuid4() generates in a run
MaxPaths == 2      \* index file names uuid4() generates in a run
MaxClock == 2      \* value at which the clock stops advancing
MaxChats == 2      \* chat requests answered on one stored history
MaxRequests == 4   \* requests served and restarts in a run of Spec

\* ------------------------------------------------------- values of the code
NoId == 0          \* session_id None / '' / 'null'
NoPath == 0        \* vectorstore_path None
BogusId == MaxIds + 1
Paths == 1..MaxPaths

VARIABLES
    chats,            \* table chats of workspace.db: id -> row
    active_sessions,  \* app.py cache: id -> [vectorstore, conversation]
    disk,             \* vectorstores/: path -> persisted index, or NoIndex
    idCount,          \* uuid4() calls made for session ids
    pathCount,        \* uuid4() calls made for index file names
    clock,            \* datetime.now()
    requests,         \* requests served and restarts so far
    asked,            \* per session id, the queries answered with success
    call,             \* the last call or request, its arguments and result
    columns,          \* the columns of table chats in workspace.db
    inflight,         \* the requests being served: thread -> its position and locals
    notes             \* table notes of workspace.db: id -> row

vars == <<chats, active_sessions, disk, idCount, pathCount, clock, requests, asked, call, columns, inflight, notes>>

\* ------------------------------------------------------------------- text
\* s[:n]
Take(s, n) == SubSeq(s, 1, IF Len(s) < n THEN Len(s) ELSE n)

\* pat in s
Contains(s, pat) ==
    \E i \in 1..(Len(s) - Len(pat) + 1) : SubSeq(s, i, i + Len(pat) - 1) = pat

\* sep.join(parts)
RECURSIVE Join(_, _)
Join(parts, sep) ==
    IF parts = <<>> THEN <<>>
    ELSE IF Len(parts) = 1 THEN parts[1]
    ELSE parts[1] \o sep \o Join(Tail(parts), sep)

IsPrefix(s, t) == Len(s) <= Len(t) /\ SubSeq(t, 1, Len(s)) = s

\* json.dumps / json.loads of a list of str-keyed dicts or of a list of str:
\* the column holds the encoded text, not the list.
json_dumps(v) == [json |-> v]
json_loads(s) == s.json

\* datetime.now() is read from a clock that never runs backwards; it
\* advances with every read until MaxClock, from where on reads are equal.
Tick(t) == IF t < MaxClock THEN t + 1 ELSE t

\* ---------------------------------------------------------------- the store
NoSession == [absent |-> TRUE]
EmptyTable == [i \in {} |-> NoSession]

\* CREATE TABLE IF NOT EXISTS chats (...): the columns of the current schema
AllColumns ==
    {"id", "title", "chat_history", "uploaded_files", "vectorstore_path",
     "created_at", "last_updated"}

\* INSERT INTO chats (...) VALUES (...)
InsertRow(db, id, title, chat_history_json, uploaded_files_json, vectorstore_path, current_time) ==
    [i \in DOMAIN db \cup {id} |->
        IF i = id
        THEN [title |-> title,
              chat_history |-> chat_history_json,
              uploaded_files |-> uploaded_files_json,
              vectorstore_path |-> vectorstore_path,
              created_at |-> current_time,
              last_updated |-> current_time]
        ELSE db[i]]

\* the UPDATE of save_chat_session without last_updated in its SET list.
UpdateRow_last_updated_kept(db, session_id, title, chat_history_json, uploaded_files_json, vectorstore_path, current_time) ==
    [db EXCEPT ![session_id] =
        [@ EXCEPT !.title = title,
                  !.chat_history = chat_history_json,
                  !.uploaded_files = uploaded_files_json,
                  !.vectorstore_path = vectorstore_path]]

\* UPDATE chats SET title, chat_history, uploaded_files, vectorstore_path,
\* last_updated WHERE id = session_id
UpdateRow(db, session_id, title, chat_history_json, uploaded_files_json, vectorstore_path, current_time) ==
    [db EXCEPT ![session_id] =
        [@ EXCEPT !.title = title,
                  !.chat_history = chat_history_json,
                  !.uploaded_files = uploaded_files_json,
                  !.vectorstore_path = vectorstore_path,
                  !.last_updated = current_time]]

\* save_chat_session with the UPDATE branch lost: every call inserts.
save_chat_session_always_insert(db, session_id, title, chat_history, uploaded_files, vectorstore_path, current_time, new_id) ==
    [chats |-> InsertRow(db, new_id, title, json_dumps(chat_history),
                         json_dumps(uploaded_files), vectorstore_path, current_time),
     id |-> new_id]

\* save_chat_session numbering a new row by the size of the table instead
\* of taking a uuid.
save_chat_session_rowcount_id(db, session_id, title, chat_history, uploaded_files, vectorstore_path, current_time, new_id) ==
    LET n == Cardinality(DOMAIN db) + 1
    IN  IF session_id # NoId /\ session_id \in DOMAIN db
        THEN [chats |-> UpdateRow(db, session_id, title, json_dumps(chat_history),
                                  json_dumps(uploaded_files),
                                  IF vectorstore_path = NoPath
                                  THEN db[session_id].vectorstore_path
                                  ELSE vectorstore_path, current_time),
              id |-> session_id]
        ELSE [chats |-> InsertRow(db, n, title, json_dumps(chat_history),
                                  json_dumps(uploaded_files), vectorstore_path,
                                  current_time),
              id |-> n]

\* save_chat_session without the lookup that keeps the stored index path.
save_chat_session_path_overwritten(db, session_id, title, chat_history, uploaded_files, vectorstore_path, current_time, new_id) ==
    IF session_id # NoId /\ session_id \in DOMAIN db
    THEN [chats |-> UpdateRow(db, session_id, title, json_dumps(chat_history),
                              json_dumps(uploaded_files), vectorstore_path,
                              current_time),
          id |-> session_id]
    ELSE [chats |-> InsertRow(db, new_id, title, json_dumps(chat_history),
                              json_dumps(uploaded_files), vectorstore_path,
                              current_time),
          id |-> new_id]

\* save_chat_session whose fallback for an unknown id inserts under that id.
save_chat_session_upsert(db, session_id, title, chat_history, uploaded_files, vectorstore_path, current_time, new_id) ==
    IF session_id # NoId /\ session_id \in DOMAIN db
    THEN [chats |-> UpdateRow(db, session_id, title, json_dumps(chat_history),
                              json_dumps(uploaded_files),
                              IF vectorstore_path = NoPath
                              THEN db[session_id].vectorstore_path
                              ELSE vectorstore_path, current_time),
          id |-> session_id]
    ELSE LET id == IF session_id # NoId THEN session_id ELSE new_id
         IN  [chats |-> InsertRow(db, id, title, json_dumps(chat_history),
                                  json_dumps(uploaded_files), vectorstore_path,
                                  current_time),
              id |-> id]

\* PersistentStorageManager.save_chat_session; new_id is the value uuid4()
\* returns if it is called.  Result: the table and the returned id.
save_chat_session(db, session_id, title, chat_history, uploaded_files, vectorstore_path, current_time, new_id) ==
    LET chat_history_json == json_dumps(chat_history)
        uploaded_files_json == json_dumps(uploaded_files)
    IN  IF session_id # NoId
        THEN LET kept == IF vectorstore_path = NoPath /\ session_id \in DOMAIN db
                         THEN db[session_id].vectorstore_path
                         ELSE vectorstore_path
             IN  IF session_id \in DOMAIN db
                 THEN [chats |-> UpdateRow(db, session_id, title, chat_history_json,
                                           uploaded_files_json, kept, current_time),
                       id |-> session_id]
                 ELSE [chats |-> InsertRow(db, new_id, title, chat_history_json,
                                           uploaded_files_json, kept, current_time),
                       id |-> new_id]
        ELSE [chats |-> InsertRow(db, new_id, title, chat_history_json,
                                  uploaded_files_json, vectorstore_path, current_time),
              id |-> new_id]

\* save_chat_session calls uuid4() on its two INSERT paths only.
SaveGenerates(db, session_id) == session_id = NoId \/ session_id \notin DOMAIN db

\* PersistentStorageManager.get_chat_session: the row with its two JSON
\* columns decoded, or None.
get_chat_session(db, session_id) ==
    IF session_id \in DOMAIN db
    THEN [db[session_id] EXCEPT !.chat_history = json_loads(@),
                                !.uploaded_files = json_loads(@)]
    ELSE NoSession

\* delete_chat_session reporting success whatever the row count.
delete_chat_session_always_true(db, session_id) ==
    [chats |-> [i \in DOMAIN db \ {session_id} |-> db[i]],
     ret |-> TRUE]

\* delete_chat_session without its WHERE clause.
delete_chat_session_all_rows(db, session_id) ==
    [chats |-> EmptyTable,
     ret |-> session_id \in DOMAIN db]

\* PersistentStorageManager.delete_chat_session
delete_chat_session(db, session_id) ==
    [chats |-> [i \in DOMAIN db \ {session_id} |-> db[i]],
     ret |-> session_id \in DOMAIN db]

\* rename_chat_session written with the UPDATE of save_chat_session, the
\* other columns left at their defaults.
rename_chat_session_full_update(db, session_id, new_title) ==
    [chats |-> IF session_id \in DOMAIN db
               THEN UpdateRow(db, session_id, new_title, json_dumps(<<>>),
                              json_dumps(<<>>), db[session_id].vectorstore_path,
                              db[session_id].last_updated)
               ELSE db,
     ret |-> session_id \in DOMAIN db]

\* PersistentStorageManager.rename_chat_session
rename_chat_session(db, session_id, new_title) ==
    [chats |-> IF session_id \in DOMAIN db
               THEN [db EXCEPT ![session_id].title = new_title]
               ELSE db,
     ret |-> session_id \in DOMAIN db]

\* the orders in which ORDER BY last_updated DESC can return the rows: rows
\* with equal last_updated come in either order
RowOrders(db) ==
    {o \in [1..Cardinality(DOMAIN db) -> DOMAIN db] :
        /\ \A i, j \in DOMAIN o : i # j => o[i] # o[j]
        /\ \A i, j \in DOMAIN o :
               i < j => db[o[i]].last_updated >= db[o[j]].last_updated}

\* get_all_chat_sessions ordered by creation time.
get_all_chat_sessions_by_created(db) ==
    {[n \in DOMAIN o |->
         [key |-> o[n],
          value |-> [title |-> db[o[n]].title,
                     created_at |-> db[o[n]].created_at,
                     last_updated |-> db[o[n]].last_updated]]] :
        o \in {p \in [1..Cardinality(DOMAIN db) -> DOMAIN db] :
                  /\ \A i, j \in DOMAIN p : i # j => p[i] # p[j]
                  /\ \A i, j \in DOMAIN p :
                         i < j => db[p[i]].created_at <= db[p[j]].created_at}}

\* PersistentStorageManager.get_all_chat_sessions: the dict it can return, as
\* the sequence of its items in insertion order.
get_all_chat_sessions(db) ==
    {[n \in DOMAIN o |->
         [key |-> o[n],
          value |-> [title |-> db[o[n]].title,
                     created_at |-> db[o[n]].created_at,
                     last_updated |-> db[o[n]].last_updated]]] : o \in RowOrders(db)}
\* -------------------------------------------------------------- StoreSpec
\* The storage manager called directly, with arguments of every shape.
NoIndex == [absent |-> TRUE]
NoCall == [op |-> "none"]
NoThreads == <<>>

\* ids a caller can pass: an id generated earlier, or a stale string
KnownIds == 1..idCount
CallerIds == KnownIds \cup {BogusId}

\* what a caller saves: title, turns and file list
StoreTurn(role, t) == [role |-> role, content |-> <<"x">>, timestamp |-> t]
StorePayloads ==
    {[title |-> <<"A">>, chat_history |-> <<>>, uploaded_files |-> <<<<"a">>>>],
     [title |-> <<"B">>,
      chat_history |-> <<StoreTurn("user", 0), StoreTurn("bot", 0)>>,
      uploaded_files |-> <<<<"b">>, <<"a">>>>]}
StorePaths == {NoPath, 1}
StoreTitles == {p.title : p \in StorePayloads}

Init ==
    /\ chats = EmptyTable
    /\ active_sessions = EmptyTable
    /\ disk = [p \in Paths |-> NoIndex]
    /\ idCount = 0
    /\ pathCount = 0
    /\ clock = 0
    /\ requests = 0
    /\ asked = [i \in 1..MaxIds |-> <<>>]
    /\ call = NoCall
    /\ columns = AllColumns
    /\ inflight = NoThreads
    /\ notes = EmptyTable

StoreSave ==
    \E session_id \in CallerIds \cup {NoId}, p \in StorePayloads,
       vectorstore_path \in StorePaths :
        LET r == save_chat_session(chats, session_id, p.title, p.chat_history,
                                   p.uploaded_files, vectorstore_path,
                                   clock, idCount + 1)
        IN  /\ SaveGenerates(chats, session_id) => idCount < MaxIds
            /\ chats' = r.chats
            /\ idCount' = IF SaveGenerates(chats, session_id) THEN idCount + 1 ELSE idCount
            /\ clock' = Tick(clock)
            /\ call' = [op |-> "save_chat_session", session_id |-> session_id,
                        title |-> p.title, chat_history |-> p.chat_history,
                        uploaded_files |-> p.uploaded_files,
                        vectorstore_path |-> vectorstore_path,
                        current_time |-> clock, ret |-> r.id]
            /\ UNCHANGED <<active_sessions, disk, pathCount, requests, asked, columns, inflight, notes>>

StoreGet ==
    \E session_id \in CallerIds :
        /\ call' = [op |-> "get_chat_session", session_id |-> session_id,
                    ret |-> get_chat_session(chats, session_id)]
        /\ UNCHANGED <<chats, active_sessions, disk, idCount, pathCount, clock, requests, asked, columns, inflight, notes>>

StoreDelete ==
    \E session_id \in CallerIds :
        LET r == delete_chat_session(chats, session_id)
        IN  /\ chats' = r.chats
            /\ call' = [op |-> "delete_chat_session", session_id |-> session_id,
                        ret |-> r.ret]
            /\ UNCHANGED <<active_sessions, disk, idCount, pathCount, clock, requests, asked, columns, inflight, notes>>

StoreRename ==
    \E session_id \in CallerIds, new_title \in StoreTitles :
        LET r == rename_chat_session(chats, session_id, new_title)
        IN  /\ chats' = r.chats
            /\ call' = [op |-> "rename_chat_session", session_id |-> session_id,
                        new_title |-> new_title, ret |-> r.ret]
            /\ UNCHANGED <<active_sessions, disk, idCount, pathCount, clock, requests, asked, columns, inflight, notes>>

StoreList ==
    \E sessions \in get_all_chat_sessions(chats) :
        /\ call' = [op |-> "get_all_chat_sessions", ret |-> sessions]
        /\ UNCHANGED <<chats, active_sessions, disk, idCount, pathCount, clock, requests, asked, columns, inflight, notes>>

StoreNext == StoreSave \/ StoreGet \/ StoreDelete \/ StoreRename \/ StoreList

StoreSpec == Init /\ [][StoreNext]_vars

\* --------------------------------------------------- claims on the store
Stored(id) == get_chat_session(chats, id)
StoredAfter(id) == get_chat_session(chats', id)

\* the step is a save_chat_session call on an id that has a record
SaveOfExisting ==
    /\ call'.op = "save_chat_session"
    /\ call'.session_id \in DOMAIN chats

\* C1: save_chat_session with an id X that has a record returns X, stores the
\* given title, turns and uploaded files in X's record, and the set of
\* session ids in the store is the same before and after the call.
C1_SaveExistingUpdatesInPlace ==
    [][SaveOfExisting =>
        /\ call'.ret = call'.session_id
        /\ DOMAIN chats' = DOMAIN chats
        /\ StoredAfter(call'.session_id).title = call'.title
        /\ StoredAfter(call'.session_id).chat_history = call'.chat_history
        /\ StoredAfter(call'.session_id).uploaded_files = call'.uploaded_files
        /\ StoredAfter(call'.session_id).created_at = Stored(call'.session_id).created_at]_vars

\* a save on the second of two sessions that changed its turns
C1_Witness ==
    /\ call.op = "save_chat_session"
    /\ call.session_id = 2
    /\ call.ret = 2
    /\ DOMAIN chats = {1, 2}
    /\ call.chat_history # <<>>
    /\ Stored(2).created_at < Stored(2).last_updated

\* C2: save_chat_session with no id inserts exactly one record, under an id
\* that no record has and that no earlier call returned, and leaves every
\* existing record as it was.
C2_SaveWithoutIdInsertsFresh ==
    [][(call'.op = "save_chat_session" /\ call'.session_id = NoId) =>
        /\ call'.ret \notin DOMAIN chats
        /\ call'.ret \notin KnownIds
        /\ DOMAIN chats' = DOMAIN chats \cup {call'.ret}
        /\ \A i \in DOMAIN chats : chats'[i] = chats[i]
        /\ StoredAfter(call'.ret).title = call'.title
        /\ StoredAfter(call'.ret).chat_history = call'.chat_history
        /\ StoredAfter(call'.ret).uploaded_files = call'.uploaded_files]_vars

\* the second insert without id, made while the first session exists
C2_Witness ==
    /\ call.op = "save_chat_session"
    /\ call.session_id = NoId
    /\ call.ret = 2
    /\ DOMAIN chats = {1, 2}
    /\ Stored(1).title # Stored(2).title

\* C4: save_chat_session on an existing session keeps the stored index path
\* when the call omits the path, and stores the supplied path otherwise.
C4_SaveKeepsOmittedIndexPath ==
    [][SaveOfExisting =>
        StoredAfter(call'.session_id).vectorstore_path =
            IF call'.vectorstore_path = NoPath
            THEN Stored(call'.session_id).vectorstore_path
            ELSE call'.vectorstore_path]_vars

\* a save that omitted the path, on a session that has one
C4_Witness ==
    /\ call.op = "save_chat_session"
    /\ call.session_id \in DOMAIN chats
    /\ call.ret = call.session_id
    /\ call.vectorstore_path = NoPath
    /\ Stored(call.session_id).vectorstore_path # NoPath
    /\ Stored(call.session_id).created_at < Stored(call.session_id).last_updated

\* C9: delete_chat_session(id) returns true exactly when a record with that
\* id existed; afterwards there is no such record and every other record is
\* unchanged.
C9_DeleteReturnsExisted ==
    [][call'.op = "delete_chat_session" =>
        /\ call'.ret = (call'.session_id \in DOMAIN chats)
        /\ DOMAIN chats' = DOMAIN chats \ {call'.session_id}
        /\ \A i \in DOMAIN chats' : chats'[i] = chats[i]]_vars

\* a delete that removed one of two records
C9_Witness ==
    /\ call.op = "delete_chat_session"
    /\ call.ret = TRUE
    /\ idCount = 2
    /\ Cardinality(DOMAIN chats) = 1


\* ------------------------------------------------------ the request handlers
\* What a handler reads and writes, passed and returned as one record.
State ==
    [chats |-> chats, active_sessions |-> active_sessions, disk |-> disk,
     idCount |-> idCount, pathCount |-> pathCount, clock |-> clock]

Google == <<"G", "o", "o", "g", "l", "e">>
Local == <<"L", "o", "c", "a", "l">>
GoogleModel == <<"G", "o", "o", "g", "l", "e", " ", "(", "G", "e", "m", "i", "n", "i", " ", "2", ".", "5", " ", "F", "l", "a", "s", "h", ")">>
LocalModel == <<"L", "o", "c", "a", "l", " ", "(", "G", "e", "m", "m", "a", " ", "2", " ", "2", "B", ")">>
OtherModel == <<"G", "P", "T">>
NoKey == "none"
NoLlm == [absent |-> TRUE]

\* app.get_llm_instance: the model object, or None when the key or the model
\* file is missing or the selection is unknown.  env: what os.getenv and
\* os.path.exists answer.
get_llm_instance(model_selection, custom_api_key, env) ==
    IF Contains(model_selection, Google)
    THEN IF custom_api_key # NoKey \/ env.GOOGLE_API_KEY
         THEN [class |-> "ChatGoogleGenerativeAI"]
         ELSE NoLlm
    ELSE IF Contains(model_selection, Local)
    THEN IF env.model_file THEN [class |-> "LlamaCpp"] ELSE NoLlm
    ELSE NoLlm

\* ConversationEnhancer.get_conversation_chain: the chain is bound to the
\* index and the model it was built with; model_type selects the prompt.
get_conversation_chain(vectorstore, llm, model_type) ==
    [vectorstore |-> vectorstore,
     llm |-> llm,
     prompt |-> IF model_type = "local" THEN "strict" ELSE "default"]

\* extract_pdf_text that records nothing for a file whose extraction raised.
RECURSIVE extract_pdf_text_failure_unrecorded(_)
extract_pdf_text_failure_unrecorded(pdf_docs) ==
    IF pdf_docs = <<>> THEN [text |-> <<>>, metadata |-> <<>>]
    ELSE LET pdf == Head(pdf_docs)
             rest == extract_pdf_text_failure_unrecorded(Tail(pdf_docs))
             status == CASE pdf.kind = "encrypted" -> "skipped"
                         [] pdf.kind = "empty" -> "skipped"
                         [] pdf.kind = "corrupt" -> "failed"
                         [] OTHER -> "success"
         IN  [text |-> IF status = "success"
                       THEN pdf.text \o <<"\n", "\n">> \o rest.text
                       ELSE rest.text,
              metadata |-> IF status = "failed" THEN rest.metadata
                           ELSE <<[filename |-> pdf.filename, status |-> status]>>
                                \o rest.metadata]

\* PDFProcessor.extract_pdf_text: one metadata entry per file; the text of
\* the readable files, each followed by a blank line.
RECURSIVE extract_pdf_text(_)
extract_pdf_text(pdf_docs) ==
    IF pdf_docs = <<>> THEN [text |-> <<>>, metadata |-> <<>>]
    ELSE LET pdf == Head(pdf_docs)
             rest == extract_pdf_text(Tail(pdf_docs))
             status == CASE pdf.kind = "encrypted" -> "skipped"
                         [] pdf.kind = "empty" -> "skipped"
                         [] pdf.kind = "corrupt" -> "failed"
                         [] OTHER -> "success"
         IN  [text |-> IF status = "success"
                       THEN pdf.text \o <<"\n", "\n">> \o rest.text
                       ELSE rest.text,
              metadata |-> <<[filename |-> pdf.filename, status |-> status]>>
                           \o rest.metadata]

\* EmbeddingSelector.create_vectorstore over the chunks of the text: the
\* index is known by the text it was built from.
create_vectorstore(raw_text) == [texts |-> raw_text]

FileNames(files) == [i \in 1..Len(files) |-> files[i].filename]

\* a handler's answer: the state it leaves, the HTTP status, the session id
\* it names (if any) and the JSON body
NoError == [error |-> "none"]
Response(st, status, ret) == [st |-> st, status |-> status, ret |-> ret, body |-> NoError]
Failed(st, status, body) == [st |-> st, status |-> status, ret |-> NoId, body |-> body]

\* the entry app.py puts in active_sessions
CacheEntry(vectorstore, conversation_chain) ==
    [vectorstore |-> vectorstore, conversation |-> conversation_chain]

CachePut(cache, id, entry) ==
    [i \in DOMAIN cache \cup {id} |-> IF i = id THEN entry ELSE cache[i]]

CacheDel(cache, id) == [i \in DOMAIN cache \ {id} |-> cache[i]]

\* the error bodies of the handlers
SessionNotFound == [error |-> "Session not found"]
QueryEmpty == [error |-> "Query cannot be empty"]
NoSessionId == [error |-> "No session ID provided"]
UploadAgain == [error |-> "Chat session not found or failed to load. Please upload documents again."]
NoTextExtracted == [error |-> "No text could be extracted from the documents."]
NoFilesSelected == [error |-> "No files selected"]
FailedToLoadModel == [error |-> "Failed to load model"]
Raised == [error |-> "str(e)"]

\* get_session inserting the cache entry as soon as the index is loaded,
\* before the model is created.
get_session_entry_before_llm(st, session_id, env, load_ok) ==
    LET session_data == get_chat_session(st.chats, session_id)
        vectorstore_path == session_data.vectorstore_path
    IN  IF session_data = NoSession
        THEN [st |-> st, status |-> 404, outcome |-> "not_found", ret |-> SessionNotFound]
        ELSE IF session_id \in DOMAIN st.active_sessions
        THEN [st |-> st, status |-> 200, outcome |-> "active", ret |-> session_data]
        ELSE IF vectorstore_path = NoPath \/ st.disk[vectorstore_path] = NoIndex
        THEN [st |-> st, status |-> 200, outcome |-> "no_vectorstore", ret |-> session_data]
        ELSE IF ~load_ok
        THEN [st |-> st, status |-> 200, outcome |-> "load_failed", ret |-> session_data]
        ELSE LET vectorstore == st.disk[vectorstore_path]
                 model_selection == IF Contains(session_data.title, Local)
                                    THEN LocalModel ELSE GoogleModel
                 llm == get_llm_instance(model_selection, NoKey, env)
                 model_type_slug == IF Contains(model_selection, Local)
                                    THEN "local" ELSE "google"
                 entry == CacheEntry(vectorstore,
                              get_conversation_chain(vectorstore, llm, model_type_slug))
             IN  [st |-> [st EXCEPT !.active_sessions = CachePut(@, session_id, entry)],
                  status |-> 200,
                  outcome |-> IF llm = NoLlm THEN "llm_failed" ELSE "loaded",
                  ret |-> session_data]

\* get_session that loads the index and builds the chain of a session that
\* is not cached, and leaves the cache as it was.
get_session_loaded_not_cached(st, session_id, env, load_ok) ==
    LET session_data == get_chat_session(st.chats, session_id)
        vectorstore_path == session_data.vectorstore_path
    IN  IF session_data = NoSession
        THEN [st |-> st, status |-> 404, outcome |-> "not_found", ret |-> SessionNotFound]
        ELSE IF session_id \in DOMAIN st.active_sessions
        THEN [st |-> st, status |-> 200, outcome |-> "active", ret |-> session_data]
        ELSE IF vectorstore_path = NoPath \/ st.disk[vectorstore_path] = NoIndex
        THEN [st |-> st, status |-> 200, outcome |-> "no_vectorstore", ret |-> session_data]
        ELSE IF ~load_ok
        THEN [st |-> st, status |-> 200, outcome |-> "load_failed", ret |-> session_data]
        ELSE LET model_selection == IF Contains(session_data.title, Local)
                                    THEN LocalModel ELSE GoogleModel
                 llm == get_llm_instance(model_selection, NoKey, env)
             IN  [st |-> st, status |-> 200,
                  outcome |-> IF llm = NoLlm THEN "llm_failed" ELSE "loaded",
                  ret |-> session_data]

\* app.get_session: returns the stored session and, when it is not cached,
\* tries to load its index and to build its chain into the cache.
\* load_ok: the embedding model and FAISS.load_local raise nothing.
get_session(st, session_id, env, load_ok) ==
    LET session_data == get_chat_session(st.chats, session_id)
        vectorstore_path == session_data.vectorstore_path
    IN  IF session_data = NoSession
        THEN [st |-> st, status |-> 404, outcome |-> "not_found", ret |-> SessionNotFound]
        ELSE IF session_id \in DOMAIN st.active_sessions
        THEN [st |-> st, status |-> 200, outcome |-> "active", ret |-> session_data]
        ELSE IF vectorstore_path = NoPath \/ st.disk[vectorstore_path] = NoIndex
        THEN [st |-> st, status |-> 200, outcome |-> "no_vectorstore", ret |-> session_data]
        ELSE IF ~load_ok
        THEN [st |-> st, status |-> 200, outcome |-> "load_failed", ret |-> session_data]
        ELSE LET vectorstore == st.disk[vectorstore_path]
                 model_selection == IF Contains(session_data.title, Local)
                                    THEN LocalModel ELSE GoogleModel
                 llm == get_llm_instance(model_selection, NoKey, env)
                 model_type_slug == IF Contains(model_selection, Local)
                                    THEN "local" ELSE "google"
                 entry == CacheEntry(vectorstore,
                              get_conversation_chain(vectorstore, llm, model_type_slug))
             IN  IF llm = NoLlm
                 THEN [st |-> st, status |-> 200, outcome |-> "llm_failed", ret |-> session_data]
                 ELSE [st |-> [st EXCEPT !.active_sessions = CachePut(@, session_id, entry)],
                       status |-> 200, outcome |-> "loaded", ret |-> session_data]

\* delete_session that forgets the cache.
delete_session_cache_kept(st, session_id, remove_ok) ==
    LET session_data == get_chat_session(st.chats, session_id)
        vectorstore_path == session_data.vectorstore_path
        removes == /\ session_data # NoSession
                   /\ vectorstore_path # NoPath
                   /\ st.disk[vectorstore_path] # NoIndex
                   /\ remove_ok
        r == delete_chat_session(st.chats, session_id)
    IN  [st |-> [st EXCEPT !.disk = IF removes
                                    THEN [@ EXCEPT ![vectorstore_path] = NoIndex]
                                    ELSE @,
                           !.chats = r.chats],
         status |-> IF r.ret THEN 200 ELSE 404]

\* app.delete_session.  remove_ok: os.remove raises nothing.
delete_session(st, session_id, remove_ok) ==
    LET session_data == get_chat_session(st.chats, session_id)
        vectorstore_path == session_data.vectorstore_path
        removes == /\ session_data # NoSession
                   /\ vectorstore_path # NoPath
                   /\ st.disk[vectorstore_path] # NoIndex
                   /\ remove_ok
        r == delete_chat_session(st.chats, session_id)
    IN  [st |-> [st EXCEPT !.disk = IF removes
                                    THEN [@ EXCEPT ![vectorstore_path] = NoIndex]
                                    ELSE @,
                           !.active_sessions = CacheDel(@, session_id),
                           !.chats = r.chats],
         status |-> IF r.ret THEN 200 ELSE 404]

\* app.rename_session
rename_session(st, session_id, new_title) ==
    IF new_title = <<>>
    THEN [st |-> st, status |-> 400]
    ELSE LET r == rename_chat_session(st.chats, session_id, new_title)
         IN  [st |-> [st EXCEPT !.chats = r.chats],
              status |-> IF r.ret THEN 200 ELSE 404]

ChatWith == <<"C", "h", "a", "t", " ", "w", "i", "t", "h", " ">>
Dots == <<".", ".", ".">>
CommaSpace == <<",", " ">>

\* process_documents putting the cache entry under the id of the request.
process_documents_cache_by_request_id(st, session_id, form, env, fault) ==
    LET files == form.files
        raw_text == extract_pdf_text(files).text
        vectorstore == create_vectorstore(raw_text)
        session_data == get_chat_session(st.chats, session_id)
        found == session_id # NoId /\ session_data # NoSession
        stored_path == IF found THEN session_data.vectorstore_path ELSE NoPath
        vectorstore_path == IF stored_path = NoPath THEN st.pathCount + 1 ELSE stored_path
        st1 == [st EXCEPT !.pathCount = IF stored_path = NoPath THEN @ + 1 ELSE @]
        st2 == [st1 EXCEPT !.disk = [@ EXCEPT ![vectorstore_path] = vectorstore]]
        llm == get_llm_instance(form.model, form.custom_api_key, env)
        session_title == IF found THEN session_data.title
                         ELSE ChatWith \o Take(Join(FileNames(files), CommaSpace), 50) \o Dots
        model_type_slug == IF Contains(form.model, Local) THEN "local" ELSE "google"
        conversation_chain == get_conversation_chain(vectorstore, llm, model_type_slug)
        saved == save_chat_session(st.chats, session_id, session_title, <<>>,
                                   FileNames(files), vectorstore_path,
                                   st.clock, st.idCount + 1)
        key == IF session_id = NoId THEN saved.id ELSE session_id
    IN  IF files = <<>> \/ \A i \in 1..Len(files) : files[i].filename = <<>>
        THEN Failed(st, 400, NoFilesSelected)
        ELSE IF raw_text = <<>> THEN Failed(st, 400, NoTextExtracted)
        ELSE IF fault = "build" THEN Failed(st, 500, Raised)
        ELSE IF fault = "persist" THEN Failed(st1, 500, Raised)
        ELSE IF llm = NoLlm THEN Failed(st2, 500, FailedToLoadModel)
        ELSE IF fault = "store" THEN Failed(st2, 500, Raised)
        ELSE Response([st2 EXCEPT
                 !.chats = saved.chats,
                 !.idCount = IF SaveGenerates(st.chats, session_id) THEN @ + 1 ELSE @,
                 !.clock = Tick(@),
                 !.active_sessions = CachePut(@, key,
                                         CacheEntry(vectorstore, conversation_chain))],
                 200, saved.id)

\* process_documents writing the session record before the index is
\* persisted.
process_documents_record_first(st, session_id, form, env, fault) ==
    LET files == form.files
        raw_text == extract_pdf_text(files).text
        vectorstore == create_vectorstore(raw_text)
        session_data == get_chat_session(st.chats, session_id)
        found == session_id # NoId /\ session_data # NoSession
        stored_path == IF found THEN session_data.vectorstore_path ELSE NoPath
        vectorstore_path == IF stored_path = NoPath THEN st.pathCount + 1 ELSE stored_path
        \* uuid4() named a new index file
        st1 == [st EXCEPT !.pathCount = IF stored_path = NoPath THEN @ + 1 ELSE @]
        \* vectorstore.save_local(vectorstore_path)
        st2 == [st1 EXCEPT !.disk = [@ EXCEPT ![vectorstore_path] = vectorstore]]
        llm == get_llm_instance(form.model, form.custom_api_key, env)
        session_title == IF found THEN session_data.title
                         ELSE ChatWith \o Take(Join(FileNames(files), CommaSpace), 50) \o Dots
        model_type_slug == IF Contains(form.model, Local) THEN "local" ELSE "google"
        conversation_chain == get_conversation_chain(vectorstore, llm, model_type_slug)
        saved == save_chat_session(st.chats, session_id, session_title, <<>>,
                                   FileNames(files), vectorstore_path,
                                   st.clock, st.idCount + 1)
    IN  IF files = <<>> \/ \A i \in 1..Len(files) : files[i].filename = <<>>
        THEN Failed(st, 400, NoFilesSelected)
        ELSE IF raw_text = <<>> THEN Failed(st, 400, NoTextExtracted)
        ELSE IF fault = "build" THEN Failed(st, 500, Raised)
        ELSE IF fault = "persist"
        THEN Failed([st1 EXCEPT !.chats = saved.chats], 500, Raised)
        ELSE IF llm = NoLlm THEN Failed(st2, 500, FailedToLoadModel)
        ELSE IF fault = "store" THEN Failed(st2, 500, Raised)
        ELSE Response([st2 EXCEPT
                 !.chats = saved.chats,
                 !.idCount = IF SaveGenerates(st.chats, session_id) THEN @ + 1 ELSE @,
                 !.clock = Tick(@),
                 !.active_sessions = CachePut(@, saved.id,
                                         CacheEntry(vectorstore, conversation_chain))],
                 200, saved.id)

\* process_documents without the test of the extracted text.
process_documents_text_unchecked(st, session_id, form, env, fault) ==
    LET files == form.files
        raw_text == extract_pdf_text(files).text
        vectorstore == create_vectorstore(raw_text)
        session_data == get_chat_session(st.chats, session_id)
        found == session_id # NoId /\ session_data # NoSession
        stored_path == IF found THEN session_data.vectorstore_path ELSE NoPath
        vectorstore_path == IF stored_path = NoPath THEN st.pathCount + 1 ELSE stored_path
        \* uuid4() named a new index file
        st1 == [st EXCEPT !.pathCount = IF stored_path = NoPath THEN @ + 1 ELSE @]
        \* vectorstore.save_local(vectorstore_path)
        st2 == [st1 EXCEPT !.disk = [@ EXCEPT ![vectorstore_path] = vectorstore]]
        llm == get_llm_instance(form.model, form.custom_api_key, env)
        session_title == IF found THEN session_data.title
                         ELSE ChatWith \o Take(Join(FileNames(files), CommaSpace), 50) \o Dots
        model_type_slug == IF Contains(form.model, Local) THEN "local" ELSE "google"
        conversation_chain == get_conversation_chain(vectorstore, llm, model_type_slug)
        saved == save_chat_session(st.chats, session_id, session_title, <<>>,
                                   FileNames(files), vectorstore_path,
                                   st.clock, st.idCount + 1)
    IN  IF files = <<>> \/ \A i \in 1..Len(files) : files[i].filename = <<>>
        THEN Failed(st, 400, NoFilesSelected)
        ELSE IF fault = "build" THEN Failed(st, 500, Raised)
        ELSE IF fault = "persist" THEN Failed(st1, 500, Raised)
        ELSE IF llm = NoLlm THEN Failed(st2, 500, FailedToLoadModel)
        ELSE IF fault = "store" THEN Failed(st2, 500, Raised)
        ELSE Response([st2 EXCEPT
                 !.chats = saved.chats,
                 !.idCount = IF SaveGenerates(st.chats, session_id) THEN @ + 1 ELSE @,
                 !.clock = Tick(@),
                 !.active_sessions = CachePut(@, saved.id,
                                         CacheEntry(vectorstore, conversation_chain))],
                 200, saved.id)

\* process_documents naming a new index file for every upload.
process_documents_new_path_each_time(st, session_id, form, env, fault) ==
    LET files == form.files
        raw_text == extract_pdf_text(files).text
        vectorstore == create_vectorstore(raw_text)
        session_data == get_chat_session(st.chats, session_id)
        found == session_id # NoId /\ session_data # NoSession
        stored_path == IF found THEN session_data.vectorstore_path ELSE NoPath
        vectorstore_path == st.pathCount + 1
        \* uuid4() named a new index file
        st1 == [st EXCEPT !.pathCount = @ + 1]
        \* vectorstore.save_local(vectorstore_path)
        st2 == [st1 EXCEPT !.disk = [@ EXCEPT ![vectorstore_path] = vectorstore]]
        llm == get_llm_instance(form.model, form.custom_api_key, env)
        session_title == IF found THEN session_data.title
                         ELSE ChatWith \o Take(Join(FileNames(files), CommaSpace), 50) \o Dots
        model_type_slug == IF Contains(form.model, Local) THEN "local" ELSE "google"
        conversation_chain == get_conversation_chain(vectorstore, llm, model_type_slug)
        saved == save_chat_session(st.chats, session_id, session_title, <<>>,
                                   FileNames(files), vectorstore_path,
                                   st.clock, st.idCount + 1)
    IN  IF files = <<>> \/ \A i \in 1..Len(files) : files[i].filename = <<>>
        THEN Failed(st, 400, NoFilesSelected)
        ELSE IF raw_text = <<>> THEN Failed(st, 400, NoTextExtracted)
        ELSE IF fault = "build" THEN Failed(st, 500, Raised)
        ELSE IF fault = "persist" THEN Failed(st1, 500, Raised)
        ELSE IF llm = NoLlm THEN Failed(st2, 500, FailedToLoadModel)
        ELSE IF fault = "store" THEN Failed(st2, 500, Raised)
        ELSE Response([st2 EXCEPT
                 !.chats = saved.chats,
                 !.idCount = IF SaveGenerates(st.chats, session_id) THEN @ + 1 ELSE @,
                 !.clock = Tick(@),
                 !.active_sessions = CachePut(@, saved.id,
                                         CacheEntry(vectorstore, conversation_chain))],
                 200, saved.id)

\* app.process_documents.  form: the uploaded files, the model selection and
\* the custom key; fault: the external call that raises, if any ("build":
\* the embedding model or FAISS.from_texts, "persist": save_local, "store":
\* the write to the database).
process_documents(st, session_id, form, env, fault) ==
    LET files == form.files
        raw_text == extract_pdf_text(files).text
        vectorstore == create_vectorstore(raw_text)
        session_data == get_chat_session(st.chats, session_id)
        found == session_id # NoId /\ session_data # NoSession
        stored_path == IF found THEN session_data.vectorstore_path ELSE NoPath
        vectorstore_path == IF stored_path = NoPath THEN st.pathCount + 1 ELSE stored_path
        \* uuid4() named a new index file
        st1 == [st EXCEPT !.pathCount = IF stored_path = NoPath THEN @ + 1 ELSE @]
        \* vectorstore.save_local(vectorstore_path)
        st2 == [st1 EXCEPT !.disk = [@ EXCEPT ![vectorstore_path] = vectorstore]]
        llm == get_llm_instance(form.model, form.custom_api_key, env)
        session_title == IF found THEN session_data.title
                         ELSE ChatWith \o Take(Join(FileNames(files), CommaSpace), 50) \o Dots
        model_type_slug == IF Contains(form.model, Local) THEN "local" ELSE "google"
        conversation_chain == get_conversation_chain(vectorstore, llm, model_type_slug)
        saved == save_chat_session(st.chats, session_id, session_title, <<>>,
                                   FileNames(files), vectorstore_path,
                                   st.clock, st.idCount + 1)
    IN  IF files = <<>> \/ \A i \in 1..Len(files) : files[i].filename = <<>>
        THEN Failed(st, 400, NoFilesSelected)
        ELSE IF raw_text = <<>> THEN Failed(st, 400, NoTextExtracted)
        ELSE IF fault = "build" THEN Failed(st, 500, Raised)
        ELSE IF fault = "persist" THEN Failed(st1, 500, Raised)
        ELSE IF llm = NoLlm THEN Failed(st2, 500, FailedToLoadModel)
        ELSE IF fault = "store" THEN Failed(st2, 500, Raised)
        ELSE Response([st2 EXCEPT
                 !.chats = saved.chats,
                 !.idCount = IF SaveGenerates(st.chats, session_id) THEN @ + 1 ELSE @,
                 !.clock = Tick(@),
                 !.active_sessions = CachePut(@, saved.id,
                                         CacheEntry(vectorstore, conversation_chain))],
                 200, saved.id)

\* chain.invoke: the answer text is not modelled; the turn carries the text
\* of the index the chain retrieved from.
Invoke(conversation_chain, user_query, chat_history) == conversation_chain.vectorstore.texts

\* what chat answers: load is how the lazy load of the session went
\* ("active" when the session was cached), invoked tells whether
\* conversation_chain.invoke was called during the request.
ChatResponse(st, status, ret, load, invoked) ==
    [st |-> st, status |-> status, ret |-> ret, load |-> load, invoked |-> invoked]

\* chat's loop over the stored turns with its elif looking for the role
\* "assistant".
Converted_assistant_role(chat_history_dicts) ==
    LET Known(msg) == msg.role \in {"user", "assistant"}
        kept == SelectSeq(chat_history_dicts, Known)
    IN  [i \in 1..Len(kept) |->
            [class |-> IF kept[i].role = "user" THEN "HumanMessage" ELSE "AIMessage",
             content |-> kept[i].content]]

\* the messages chat passes to the chain as chat_history: a HumanMessage
\* for a turn of role "user", an AIMessage for a turn of role "bot", and
\* nothing for a turn of any other role
Converted(chat_history_dicts) ==
    LET Known(msg) == msg.role \in {"user", "bot"}
        kept == SelectSeq(chat_history_dicts, Known)
    IN  [i \in 1..Len(kept) |->
            [class |-> IF kept[i].role = "user" THEN "HumanMessage" ELSE "AIMessage",
             content |-> kept[i].content]]

\* the argument of conversation_chain.invoke
ChainInput(user_query, chat_history_dicts) ==
    [input |-> user_query, chat_history |-> Converted(chat_history_dicts)]

\* a response of chat together with what the chain was invoked with
Invoked(response, passed) ==
    [st |-> response.st, status |-> response.status, ret |-> response.ret,
     load |-> response.load, invoked |-> response.invoked, passed |-> passed]

NotInvoked == [input |-> <<>>, chat_history |-> <<>>]

\* chat without the second look into the cache after the lazy load: the
\* lookup of the missing entry raises inside the try block.
chat_without_recheck(st, session_id, user_query, env, load_ok, gen_ok) ==
    IF user_query = <<>> THEN ChatResponse(st, 400, QueryEmpty, "none", FALSE)
    ELSE IF session_id = NoId THEN ChatResponse(st, 400, NoSessionId, "none", FALSE)
    ELSE LET loaded == get_session(st, session_id, env, load_ok)
             load == IF session_id \in DOMAIN st.active_sessions
                     THEN "active" ELSE loaded.outcome
             st0 == IF session_id \in DOMAIN st.active_sessions THEN st ELSE loaded.st
         IN  IF session_id \notin DOMAIN st0.active_sessions
             THEN ChatResponse(st0, 500, Raised, load, FALSE)
             ELSE LET conversation_chain == st0.active_sessions[session_id].conversation
                      session_data == get_chat_session(st0.chats, session_id)
                      chat_history_dicts == session_data.chat_history
                      user_message == [role |-> "user", content |-> user_query,
                                       timestamp |-> st0.clock]
                      bot_message == [role |-> "bot",
                                      content |-> Invoke(conversation_chain, user_query,
                                                         chat_history_dicts),
                                      timestamp |-> Tick(st0.clock)]
                      extended == chat_history_dicts \o <<user_message, bot_message>>
                      title == IF Len(extended) < 3
                               THEN Take(user_query, 50)
                               ELSE session_data.title
                      current_time == Tick(Tick(st0.clock))
                      saved == save_chat_session(st0.chats, session_id, title, extended,
                                                 session_data.uploaded_files,
                                                 session_data.vectorstore_path,
                                                 current_time, st0.idCount + 1)
                  IN  IF session_data = NoSession
                      THEN ChatResponse(st0, 500, Raised, load, FALSE)
                      ELSE IF ~gen_ok THEN ChatResponse(st0, 500, Raised, load, TRUE)
                      ELSE ChatResponse([st0 EXCEPT
                               !.chats = saved.chats,
                               !.idCount = IF SaveGenerates(st0.chats, session_id)
                                           THEN @ + 1 ELSE @,
                               !.clock = Tick(current_time)],
                               200, bot_message, load, TRUE)

\* chat storing the user turn before it invokes the chain.
chat_user_turn_saved_first(st, session_id, user_query, env, load_ok, gen_ok) ==
    IF user_query = <<>> THEN ChatResponse(st, 400, QueryEmpty, "none", FALSE)
    ELSE IF session_id = NoId THEN ChatResponse(st, 400, NoSessionId, "none", FALSE)
    ELSE LET loaded == get_session(st, session_id, env, load_ok)
             load == IF session_id \in DOMAIN st.active_sessions
                     THEN "active" ELSE loaded.outcome
             st0 == IF session_id \in DOMAIN st.active_sessions THEN st ELSE loaded.st
         IN  IF session_id \notin DOMAIN st0.active_sessions
             THEN ChatResponse(st0, 400, UploadAgain, load, FALSE)
             ELSE LET conversation_chain == st0.active_sessions[session_id].conversation
                      session_data == get_chat_session(st0.chats, session_id)
                      chat_history_dicts == session_data.chat_history
                      user_message == [role |-> "user", content |-> user_query,
                                       timestamp |-> st0.clock]
                      bot_message == [role |-> "bot",
                                      content |-> Invoke(conversation_chain, user_query,
                                                         chat_history_dicts),
                                      timestamp |-> Tick(st0.clock)]
                      extended == chat_history_dicts \o <<user_message, bot_message>>
                      title == IF Len(extended) < 3
                               THEN Take(user_query, 50)
                               ELSE session_data.title
                      current_time == Tick(Tick(st0.clock))
                      saved == save_chat_session(st0.chats, session_id, title, extended,
                                                 session_data.uploaded_files,
                                                 session_data.vectorstore_path,
                                                 current_time, st0.idCount + 1)
                  IN  IF session_data = NoSession
                      THEN ChatResponse(st0, 500, Raised, load, FALSE)
                      ELSE IF ~gen_ok
                      THEN ChatResponse([st0 EXCEPT
                               !.chats = save_chat_session(st0.chats, session_id, title,
                                             chat_history_dicts \o <<user_message>>,
                                             session_data.uploaded_files,
                                             session_data.vectorstore_path,
                                             current_time, st0.idCount + 1).chats,
                               !.clock = Tick(current_time)],
                               500, Raised, load, TRUE)
                      ELSE ChatResponse([st0 EXCEPT
                               !.chats = saved.chats,
                               !.idCount = IF SaveGenerates(st0.chats, session_id)
                                           THEN @ + 1 ELSE @,
                               !.clock = Tick(current_time)],
                               200, bot_message, load, TRUE)

\* chat saving the turns without the uploaded files of the session.
chat_files_not_passed(st, session_id, user_query, env, load_ok, gen_ok) ==
    IF user_query = <<>> THEN ChatResponse(st, 400, QueryEmpty, "none", FALSE)
    ELSE IF session_id = NoId THEN ChatResponse(st, 400, NoSessionId, "none", FALSE)
    ELSE LET loaded == get_session(st, session_id, env, load_ok)
             load == IF session_id \in DOMAIN st.active_sessions
                     THEN "active" ELSE loaded.outcome
             st0 == IF session_id \in DOMAIN st.active_sessions THEN st ELSE loaded.st
         IN  IF session_id \notin DOMAIN st0.active_sessions
             THEN ChatResponse(st0, 400, UploadAgain, load, FALSE)
             ELSE LET conversation_chain == st0.active_sessions[session_id].conversation
                      session_data == get_chat_session(st0.chats, session_id)
                      chat_history_dicts == session_data.chat_history
                      user_message == [role |-> "user", content |-> user_query,
                                       timestamp |-> st0.clock]
                      bot_message == [role |-> "bot",
                                      content |-> Invoke(conversation_chain, user_query,
                                                         chat_history_dicts),
                                      timestamp |-> Tick(st0.clock)]
                      extended == chat_history_dicts \o <<user_message, bot_message>>
                      title == IF Len(extended) < 3
                               THEN Take(user_query, 50)
                               ELSE session_data.title
                      current_time == Tick(Tick(st0.clock))
                      saved == save_chat_session(st0.chats, session_id, title, extended,
                                                 <<>>,
                                                 session_data.vectorstore_path,
                                                 current_time, st0.idCount + 1)
                  IN  IF session_data = NoSession
                      THEN ChatResponse(st0, 500, Raised, load, FALSE)
                      ELSE IF ~gen_ok THEN ChatResponse(st0, 500, Raised, load, TRUE)
                      ELSE ChatResponse([st0 EXCEPT
                               !.chats = saved.chats,
                               !.idCount = IF SaveGenerates(st0.chats, session_id)
                                           THEN @ + 1 ELSE @,
                               !.clock = Tick(current_time)],
                               200, bot_message, load, TRUE)

\* app.chat.  gen_ok: conversation_chain.invoke raises nothing.
chat(st, session_id, user_query, env, load_ok, gen_ok) ==
    IF user_query = <<>> THEN ChatResponse(st, 400, QueryEmpty, "none", FALSE)
    ELSE IF session_id = NoId THEN ChatResponse(st, 400, NoSessionId, "none", FALSE)
    ELSE LET loaded == get_session(st, session_id, env, load_ok)
             load == IF session_id \in DOMAIN st.active_sessions
                     THEN "active" ELSE loaded.outcome
             st0 == IF session_id \in DOMAIN st.active_sessions THEN st ELSE loaded.st
         IN  IF session_id \notin DOMAIN st0.active_sessions
             THEN ChatResponse(st0, 400, UploadAgain, load, FALSE)
             ELSE LET conversation_chain == st0.active_sessions[session_id].conversation
                      session_data == get_chat_session(st0.chats, session_id)
                      chat_history_dicts == session_data.chat_history
                      user_message == [role |-> "user", content |-> user_query,
                                       timestamp |-> st0.clock]
                      bot_message == [role |-> "bot",
                                      content |-> Invoke(conversation_chain, user_query,
                                                         chat_history_dicts),
                                      timestamp |-> Tick(st0.clock)]
                      extended == chat_history_dicts \o <<user_message, bot_message>>
                      title == IF Len(extended) < 3
                               THEN Take(user_query, 50)
                               ELSE session_data.title
                      current_time == Tick(Tick(st0.clock))
                      saved == save_chat_session(st0.chats, session_id, title, extended,
                                                 session_data.uploaded_files,
                                                 session_data.vectorstore_path,
                                                 current_time, st0.idCount + 1)
                  IN  IF session_data = NoSession
                      THEN ChatResponse(st0, 500, Raised, load, FALSE)
                      ELSE IF ~gen_ok
                      THEN Invoked(ChatResponse(st0, 500, Raised, load, TRUE),
                                   ChainInput(user_query, chat_history_dicts))
                      ELSE Invoked(ChatResponse([st0 EXCEPT
                               !.chats = saved.chats,
                               !.idCount = IF SaveGenerates(st0.chats, session_id)
                                           THEN @ + 1 ELSE @,
                               !.clock = Tick(current_time)],
                               200, bot_message, load, TRUE),
                               ChainInput(user_query, chat_history_dicts))

\* ------------------------------------------------------------------- Spec
\* The requests of a run, one after another.
FileA == [filename |-> <<"a", ".", "p", "d", "f">>, kind |-> "ok", text |-> <<"1">>]
FileLocal == [filename |-> <<"L", "o", "c", "a", "l", ".", "p", "d", "f">>, kind |-> "encrypted", text |-> <<>>]
FileLong == [filename |-> [i \in 1..51 |-> "z"], kind |-> "ok", text |-> <<"2">>]

Forms ==
    {[files |-> <<FileA>>, model |-> GoogleModel, custom_api_key |-> NoKey],
     [files |-> <<FileLocal, FileLong>>, model |-> LocalModel, custom_api_key |-> NoKey],
     [files |-> <<FileLocal>>, model |-> GoogleModel, custom_api_key |-> NoKey],
     [files |-> <<>>, model |-> OtherModel, custom_api_key |-> NoKey]}

EnvOk == [GOOGLE_API_KEY |-> TRUE, model_file |-> TRUE]

EnvBad == [GOOGLE_API_KEY |-> FALSE, model_file |-> FALSE]

Envs == {EnvOk, EnvBad}

Faults == {"none", "build", "persist", "store"}

\* The runs of process_documents: a form that is rejected with 400 returns
\* before the environment or a fault can matter, and a fault is injected into
\* the run of the first form only.
ProcessInputs ==
    {x \in [form : Forms, env : Envs, fault : Faults] :
        /\ extract_pdf_text(x.form.files).text = <<>> => x.env = EnvOk /\ x.fault = "none"
        /\ x.fault # "none" => x.env = EnvOk /\ x.form.files = <<FileA>>}

\* The ways a lazy load of a session can go: the index loads and the model is
\* built, the index fails to load, or the model cannot be built.
Loads ==
    {[env |-> EnvOk, load_ok |-> TRUE],
     [env |-> EnvOk, load_ok |-> FALSE],
     [env |-> EnvBad, load_ok |-> TRUE]}

\* The runs of chat: generation can fail only once the session is loaded, and
\* a request without a query or an id is rejected before anything is loaded.
ChatInputs ==
    {x \in [load : Loads, gen_ok : BOOLEAN] :
        ~x.gen_ok => x.load = [env |-> EnvOk, load_ok |-> TRUE]}

Queries == {<<"h", "i">>, [i \in 1..51 |-> "q"]}

RenameTitles == {<<"L", "o", "c", "a", "l">>}

Apply(st) ==
    /\ chats' = st.chats
    /\ active_sessions' = st.active_sessions
    /\ disk' = st.disk
    /\ idCount' = st.idCount
    /\ pathCount' = st.pathCount
    /\ clock' = st.clock
    /\ UNCHANGED <<columns, inflight, notes>>

Served == requests < MaxRequests /\ requests' = requests + 1

\* process_documents calls uuid4() to name the index file unless the session
\* has a stored path.
NeedsNewPath(db, session_id) ==
    \/ session_id = NoId
    \/ session_id \notin DOMAIN db
    \/ db[session_id].vectorstore_path = NoPath

ProcessDocuments ==
    \E session_id \in CallerIds \cup {NoId}, x \in ProcessInputs :
        LET r == process_documents(State, session_id, x.form, x.env, x.fault)
        IN  /\ Served
            /\ x.form.files = <<>> => session_id = NoId
            /\ NeedsNewPath(chats, session_id) => pathCount < MaxPaths
            /\ SaveGenerates(chats, session_id) => idCount < MaxIds
            /\ Apply(r.st)
            /\ call' = [op |-> "process_documents", session_id |-> session_id,
                        files |-> FileNames(x.form.files),
                        status |-> r.status, ret |-> r.ret, body |-> r.body]
            /\ UNCHANGED asked

Chat ==
    \E session_id \in CallerIds \cup {NoId}, user_query \in Queries \cup {<<>>},
       x \in ChatInputs :
        LET r == chat(State, session_id, user_query, x.load.env, x.load.load_ok, x.gen_ok)
        IN  /\ Served
            /\ (user_query = <<>> \/ session_id = NoId) =>
                   x = [load |-> [env |-> EnvOk, load_ok |-> TRUE], gen_ok |-> TRUE]
            /\ user_query = <<>> => session_id = BogusId
            /\ ~x.gen_ok => r.invoked
            /\ session_id \in DOMAIN chats =>
                   Len(get_chat_session(chats, session_id).chat_history) < 2 * MaxChats
            /\ Apply(r.st)
            /\ call' = [op |-> "chat", session_id |-> session_id,
                        query |-> user_query, status |-> r.status,
                        ret |-> r.ret, load |-> r.load, invoked |-> r.invoked,
                        gen_ok |-> x.gen_ok,
                        passed |-> IF "passed" \in DOMAIN r THEN r.passed
                                   ELSE NotInvoked]
            /\ asked' = IF r.status = 200
                        THEN [asked EXCEPT ![session_id] = Append(@, user_query)]
                        ELSE asked

GetSession ==
    \E session_id \in CallerIds, load \in Loads :
        LET r == get_session(State, session_id, load.env, load.load_ok)
        IN  /\ Served
            /\ Apply(r.st)
            /\ call' = [op |-> "get_session", session_id |-> session_id,
                        status |-> r.status, outcome |-> r.outcome, ret |-> r.ret]
            /\ UNCHANGED asked

DeleteSession ==
    \E session_id \in CallerIds, remove_ok \in BOOLEAN :
        LET r == delete_session(State, session_id, remove_ok)
        IN  /\ Served
            /\ Apply(r.st)
            /\ call' = [op |-> "delete_session", session_id |-> session_id,
                        status |-> r.status,
                        was_active |-> session_id \in DOMAIN active_sessions]
            /\ UNCHANGED asked

RenameSession ==
    \E session_id \in CallerIds, new_title \in RenameTitles \cup {<<>>} :
        LET r == rename_session(State, session_id, new_title)
        IN  /\ Served
            /\ new_title = <<>> => session_id = BogusId
            /\ Apply(r.st)
            /\ call' = [op |-> "rename_session", session_id |-> session_id,
                        new_title |-> new_title, status |-> r.status,
                        before |-> get_chat_session(chats, session_id)]
            /\ UNCHANGED asked

\* The process is restarted: active_sessions is a module-level dict.  A
\* restart counts as a step of the run.
Restart ==
    /\ active_sessions # EmptyTable
    /\ Served
    /\ active_sessions' = EmptyTable
    /\ call' = [op |-> "restart"]
    /\ UNCHANGED <<chats, disk, idCount, pathCount, clock, asked, columns, inflight, notes>>

Next ==
    \/ ProcessDocuments
    \/ Chat
    \/ GetSession
    \/ DeleteSession
    \/ RenameSession
    \/ Restart

Spec == Init /\ [][Next]_vars

\* ---------------------------------------------- claims on the handlers
\* C3: a save under an id X that has no record inserts one record under a
\* newly generated id different from X and returns it; the store has no
\* record for X afterwards, and process_documents puts its cache entry under
\* the returned id, not under X.
C3_UnknownIdSavedUnderNewId ==
    [][(/\ call'.op = "process_documents"
        /\ call'.status = 200
        /\ call'.session_id # NoId
        /\ call'.session_id \notin DOMAIN chats) =>
        /\ call'.ret # call'.session_id
        /\ call'.ret \notin KnownIds
        /\ DOMAIN chats' = DOMAIN chats \cup {call'.ret}
        /\ \A i \in DOMAIN chats : chats'[i] = chats[i]
        /\ call'.session_id \notin DOMAIN chats'
        /\ DOMAIN active_sessions' = DOMAIN active_sessions \cup {call'.ret}
        /\ call'.session_id \notin DOMAIN active_sessions']_vars

\* documents processed under the id of a deleted session
C3_Witness ==
    /\ call.op = "process_documents"
    /\ call.status = 200
    /\ call.session_id = 1
    /\ call.ret = 2
    /\ DOMAIN chats = {2}
    /\ DOMAIN active_sessions = {2}

\* C5: after N successful chat requests on a session, its stored history has
\* length 2N, is the N user/bot pairs in the order of the requests, and its
\* timestamps never decrease.
C5_HistoryIsTheChatsAnswered ==
    \A i \in DOMAIN chats :
        LET h == Stored(i).chat_history
        IN  /\ Len(h) = 2 * Len(asked[i])
            /\ \A k \in 1..Len(asked[i]) :
                   /\ h[2 * k - 1].role = "user"
                   /\ h[2 * k - 1].content = asked[i][k]
                   /\ h[2 * k].role = "bot"
            /\ \A k \in 1..(Len(h) - 1) : h[k].timestamp <= h[k + 1].timestamp

\* C6: the stored turns of a session are append-only: whatever the request,
\* the turns stored before it are a prefix of the turns stored after it, as
\* long as the session exists.
C6_TurnsAppendOnly ==
    [][\A i \in DOMAIN chats \cap DOMAIN chats' :
          IsPrefix(Stored(i).chat_history, StoredAfter(i).chat_history)]_vars

FailedLoads == {"not_found", "no_vectorstore", "load_failed", "llm_failed"}

\* C7: when loading a session into the cache fails (no record, no index
\* path, no index at the path, the index fails to load, or no model), the
\* cache has no entry for the id afterwards; no entry is ever partial.
C7_FailedLoadLeavesNoEntry ==
    /\ (call.op = "get_session" /\ call.outcome \in FailedLoads) =>
            call.session_id \notin DOMAIN active_sessions
    /\ (/\ call.op = "chat" /\ call.status = 400
        /\ call.query # <<>> /\ call.session_id # NoId) =>
            call.session_id \notin DOMAIN active_sessions
    /\ \A i \in DOMAIN active_sessions :
            /\ active_sessions[i].vectorstore # NoIndex
            /\ active_sessions[i].conversation.llm # NoLlm
            /\ active_sessions[i].conversation.vectorstore = active_sessions[i].vectorstore

\* the model could not be created for a session whose index was loaded
C7_Witness ==
    /\ call.op = "get_session"
    /\ call.outcome = "llm_failed"
    /\ call.session_id \in DOMAIN chats
    /\ disk[Stored(call.session_id).vectorstore_path] # NoIndex

\* C8: when delete_session succeeds on an id that is in the cache, the store
\* has no record for the id and the cache has no entry for it.
C8_DeleteCleansStoreAndCache ==
    [][(/\ call'.op = "delete_session"
        /\ call'.status = 200
        /\ call'.session_id \in DOMAIN active_sessions) =>
        /\ call'.session_id \notin DOMAIN chats'
        /\ call'.session_id \notin DOMAIN active_sessions'
        /\ get_chat_session(chats', call'.session_id) = NoSession]_vars

\* a cached session was deleted while another one stays cached
C8_Witness ==
    /\ call.op = "delete_session"
    /\ call.status = 200
    /\ call.was_active
    /\ active_sessions # EmptyTable

\* C10: renaming an existing session succeeds and changes its title only
\* (turns, uploaded files, index path and createdAt stay, also when the new
\* title is the current one); renaming a missing id fails and changes no
\* record.
C10_RenameChangesTitleOnly ==
    [][(call'.op = "rename_session" /\ call'.new_title # <<>>) =>
        IF call'.session_id \in DOMAIN chats
        THEN /\ call'.status = 200
             /\ DOMAIN chats' = DOMAIN chats
             /\ StoredAfter(call'.session_id).title = call'.new_title
             /\ StoredAfter(call'.session_id).chat_history = Stored(call'.session_id).chat_history
             /\ StoredAfter(call'.session_id).uploaded_files = Stored(call'.session_id).uploaded_files
             /\ StoredAfter(call'.session_id).vectorstore_path = Stored(call'.session_id).vectorstore_path
             /\ StoredAfter(call'.session_id).created_at = Stored(call'.session_id).created_at
             /\ \A i \in DOMAIN chats \ {call'.session_id} : chats'[i] = chats[i]
        ELSE /\ call'.status = 404
             /\ chats' = chats]_vars

\* a session with turns was renamed to the title it already had
C10_Witness ==
    /\ call.op = "rename_session"
    /\ call.status = 200
    /\ call.before.title = call.new_title
    /\ call.before.chat_history # <<>>
    /\ Stored(call.session_id) = call.before

\* ------------------------------------------------- claims on the listing
\* C15: get_all_chat_sessions returns exactly one entry per stored session,
\* keyed by id, holding only title, created_at and last_updated, ordered by
\* last_updated descending: a session saved later than every other one is
\* the first entry.
C15_ListingIsMetadataByLastUpdated ==
    call.op = "get_all_chat_sessions" =>
        LET sessions == call.ret
        IN  /\ Len(sessions) = Cardinality(DOMAIN chats)
            /\ {sessions[n].key : n \in DOMAIN sessions} = DOMAIN chats
            /\ \A n \in DOMAIN sessions :
                   /\ DOMAIN sessions[n].value = {"title", "created_at", "last_updated"}
                   /\ sessions[n].value.title = chats[sessions[n].key].title
                   /\ sessions[n].value.created_at = chats[sessions[n].key].created_at
                   /\ sessions[n].value.last_updated = chats[sessions[n].key].last_updated
            /\ \A m, n \in DOMAIN sessions :
                   m < n => sessions[m].value.last_updated >= sessions[n].value.last_updated
            /\ \A k \in DOMAIN chats :
                   (\A i \in DOMAIN chats \ {k} : chats[k].last_updated > chats[i].last_updated)
                       => sessions[1].key = k

\* the listing of two sessions, the older of which was saved last
C15_Witness ==
    /\ call.op = "get_all_chat_sessions"
    /\ Len(call.ret) = 2
    /\ call.ret[1].key = 1
    /\ call.ret[1].value.created_at < call.ret[2].value.created_at
    /\ call.ret[1].value.last_updated > call.ret[2].value.last_updated

\* ---------------------------------------------------------------- OpenSpec
\* The application started on a workspace.db left by an earlier run or an
\* earlier version: _init_database runs when the process starts, and the
\* handlers serve requests once it has returned.
MaxOpened == 2     \* starts and requests in a run of OpenSpec

Untitled == <<"U", "n", "t", "i", "t", "l", "e", "d", " ", "C", "h", "a", "t">>

\* the ALTER TABLE chats ADD COLUMN statements of the migration, in the order
\* of the code; constant: the DEFAULT is a constant (SQLite refuses to add a
\* column with a non-constant default to a table that has rows)
Migrations ==
    <<[column |-> "title", default |-> Untitled, constant |-> TRUE],
      [column |-> "uploaded_files", default |-> json_dumps(<<>>), constant |-> TRUE],
      [column |-> "created_at", default |-> "CURRENT_TIMESTAMP", constant |-> FALSE],
      [column |-> "last_updated", default |-> "CURRENT_TIMESTAMP", constant |-> FALSE],
      [column |-> "vectorstore_path", default |-> NoPath, constant |-> TRUE]>>

\* one migration step on table t = [columns, rows, raised]
AddColumn(t, m) ==
    IF t.raised \/ m.column \in t.columns THEN t
    ELSE IF ~m.constant /\ DOMAIN t.rows # {}
    THEN [t EXCEPT !.raised = TRUE]
    ELSE [columns |-> t.columns \cup {m.column},
          rows |-> [i \in DOMAIN t.rows |->
                       [f \in DOMAIN t.rows[i] \cup {m.column} |->
                           IF f = m.column THEN m.default ELSE t.rows[i][f]]],
          raised |-> FALSE]

\* PersistentStorageManager._init_database on a file whose table chats has
\* the columns cols (none: there is no table) and the rows db: CREATE TABLE
\* IF NOT EXISTS, then the migration.  raised: sqlite3.Error is re-raised.
init_database(cols, db) ==
    LET t0 == IF cols = {}
              THEN [columns |-> AllColumns, rows |-> EmptyTable, raised |-> FALSE]
              ELSE [columns |-> cols, rows |-> db, raised |-> FALSE]
    IN  AddColumn(AddColumn(AddColumn(AddColumn(AddColumn(t0,
            Migrations[1]), Migrations[2]), Migrations[3]), Migrations[4]), Migrations[5])

\* the schemas the migration is written for: id and chat_history have been
\* there from the start
Schemas == {c \in SUBSET AllColumns : {"id", "chat_history"} \subseteq c}

\* a session as an earlier run left it
OldRow(vectorstore_path) ==
    [title |-> <<"A">>,
     chat_history |-> json_dumps(<<StoreTurn("user", 0), StoreTurn("bot", 0)>>),
     uploaded_files |-> json_dumps(<<<<"a">>>>),
     vectorstore_path |-> vectorstore_path,
     created_at |-> 0,
     last_updated |-> 0]

OldIndex == create_vectorstore(<<"1", "\n", "\n">>)

OpenInit ==
    \E cols \in Schemas \cup {{}}, rows \in {0, 1}, path \in {NoPath, 1}, file \in BOOLEAN :
        /\ cols = {} => rows = 0
        /\ (rows = 0 \/ "vectorstore_path" \notin cols) => path = NoPath
        /\ file => path = 1
        /\ columns = cols
        /\ chats = [i \in 1..rows |-> [f \in cols \ {"id"} |-> OldRow(path)[f]]]
        /\ disk = [p \in Paths |-> IF p = 1 /\ file THEN OldIndex ELSE NoIndex]
        /\ idCount = rows
        /\ pathCount = IF path = 1 THEN 1 ELSE 0
        /\ active_sessions = EmptyTable
        /\ clock = 0
        /\ requests = 0
        /\ asked = [i \in 1..MaxIds |-> <<>>]
        /\ call = NoCall
        /\ inflight = NoThreads
        /\ notes = EmptyTable

\* the process starts: the module-level storage_manager is constructed, the
\* cache is empty
Open ==
    LET r == init_database(columns, chats)
    IN  /\ requests < MaxOpened
        /\ requests' = requests + 1
        /\ columns' = r.columns
        /\ chats' = r.rows
        /\ active_sessions' = EmptyTable
        /\ call' = [op |-> "init_database", raised |-> r.raised]
        /\ UNCHANGED <<disk, idCount, pathCount, clock, asked, inflight, notes>>

\* the app is up: _init_database has returned
Running == requests > 0 /\ requests < MaxOpened /\ columns = AllColumns

\* jsonify of the dict of get_all_chat_sessions: a JSON object, id -> entry
Jsonify(sessions) ==
    [k \in {sessions[n].key : n \in DOMAIN sessions} |->
        sessions[CHOOSE n \in DOMAIN sessions : sessions[n].key = k].value]

\* app.get_all_sessions
GetAllSessions ==
    \E sessions \in get_all_chat_sessions(chats) :
        /\ Served
        /\ call' = [op |-> "get_all_sessions", status |-> 200, ret |-> Jsonify(sessions)]
        /\ UNCHANGED <<chats, active_sessions, disk, idCount, pathCount, clock, asked, columns, inflight, notes>>

OpenNext ==
    \/ Open
    \/ Running /\ Chat
    \/ Running /\ GetSession
    \/ Running /\ GetAllSessions
    \/ Running /\ ProcessDocuments

OpenSpec == OpenInit /\ [][OpenNext]_vars

\* -------------------------------------------------- claims on OpenSpec
\* the session of the request can not be loaded: it has no record, no index
\* path or no index file, or loading the index raised
Unloadable(session_id, load) ==
    /\ session_id \notin DOMAIN active_sessions
    /\ \/ session_id \notin DOMAIN chats
       \/ chats[session_id].vectorstore_path = NoPath
       \/ disk[chats[session_id].vectorstore_path] = NoIndex
       \/ load = "load_failed"

\* C11: a chat request against a session whose index cannot be loaded (no
\* record, no index path, or unloadable index) is answered with the error
\* that tells the user to upload documents again, invokes no chain and
\* appends no turn; get_session still returns such a session and the
\* listing still holds it.
C11_UnloadableSessionIsRejectedByChat ==
    [][/\ (/\ call'.op = "chat"
           /\ call'.query # <<>>
           /\ call'.session_id # NoId
           /\ Unloadable(call'.session_id, call'.load)) =>
              /\ call'.status = 400
              /\ call'.ret = UploadAgain
              /\ ~call'.invoked
              /\ chats' = chats
              /\ active_sessions' = active_sessions
       /\ (/\ call'.op = "get_session"
           /\ call'.session_id \in DOMAIN chats
           /\ Unloadable(call'.session_id, call'.outcome)) =>
              /\ call'.status = 200
              /\ call'.ret = Stored(call'.session_id)
              /\ chats' = chats
       /\ call'.op = "get_all_sessions" => DOMAIN call'.ret = DOMAIN chats]_vars

\* a chat request on a migrated session that has no index path
C11_Witness ==
    /\ call.op = "chat"
    /\ call.session_id \in DOMAIN chats
    /\ Stored(call.session_id).vectorstore_path = NoPath
    /\ call.load = "no_vectorstore"
    /\ call.ret = UploadAgain

\* C18: opening a store created under an older schema adds every missing
\* column of table chats with its default, changes no value of an existing
\* row, deletes no row, and changes nothing on a store that is migrated.
C18_MigrationAddsColumnsKeepsRows ==
    [][call'.op = "init_database" =>
        /\ ~call'.raised
        /\ columns' = AllColumns
        /\ DOMAIN chats' = DOMAIN chats
        /\ \A i \in DOMAIN chats :
              /\ \A f \in DOMAIN chats[i] : chats'[i][f] = chats[i][f]
              /\ \A n \in DOMAIN Migrations :
                    Migrations[n].column \notin columns =>
                        chats'[i][Migrations[n].column] = Migrations[n].default
        /\ columns = AllColumns => chats' = chats]_vars

\* ------------------------------------------------------- claims on Spec
\* C12: when process_documents fails (no text could be extracted, building
\* or persisting the index raised, or any later failure), no session record
\* is created or updated and no cache entry is inserted or replaced.
C12_FailedProcessSavesNothing ==
    [][(call'.op = "process_documents" /\ call'.status # 200) =>
        /\ chats' = chats
        /\ active_sessions' = active_sessions]_vars

\* save_local raised for the index of a second session: its file name was
\* generated, no file and no record exist for it
C12_Witness ==
    /\ call.op = "process_documents"
    /\ call.status = 500
    /\ call.body = Raised
    /\ call.session_id = NoId
    /\ pathCount = 2
    /\ disk[2] = NoIndex
    /\ DOMAIN chats = {1}
    /\ DOMAIN active_sessions = {1}

\* ---------------------------------------------------------------- ConcSpec
\* The handlers served by the threads of the server (app.run serves every
\* request in a thread of its own): a request advances by one statement
\* that reads or writes the store, the cache or the disk at a time, and the
\* statements of the requests in flight interleave.  The process has been
\* started on a store that holds sessions of an earlier run; the cache is
\* empty.  A request that has arrived and has executed no statement yet
\* has seen and changed nothing, so every request is in flight from the
\* start and the order of the first statements is the order of arrival.
\* Every request saves at most once, so the ids generated are bounded by
\* the number of requests.
MaxThreads == 2    \* requests in flight at the same time

\* the threads that serve a request
Threads == DOMAIN inflight
Idle == [pc |-> "idle"]
NoEntry == [absent |-> TRUE]

ConcOps == {"get_session", "chat", "process_documents", "delete_session", "rename_session"}

\* the first statement of each handler
Entry(op) ==
    CASE op = "get_session" -> "gs_read"
      [] op = "chat" -> "ch_cached"
      [] op = "process_documents" -> "pd_path"
      [] op = "delete_session" -> "dl_read"
      [] op = "rename_session" -> "rn_update"

\* the locals of a request that starts
Request(op, session_id) ==
    [pc |-> Entry(op), op |-> op, session_id |-> session_id,
     session_data |-> NoSession, entry |-> NoEntry, path |-> NoPath,
     title |-> <<>>, saved_id |-> NoId]

ConcQuery == <<"h", "i">>
ConcFiles == <<FileA>>

\* the requests clients send on a store of n sessions, numbered: every
\* handler on every stored id, and an upload without id
ConcRequests(n) ==
    [k \in 1..(5 * n + 1) |->
        IF k = 5 * n + 1 THEN Request("process_documents", NoId)
        ELSE Request(CASE k % 5 = 0 -> "get_session"
                       [] k % 5 = 1 -> "chat"
                       [] k % 5 = 2 -> "process_documents"
                       [] k % 5 = 3 -> "delete_session"
                       [] k % 5 = 4 -> "rename_session",
                     ((k - 1) \div 5) + 1)]

\* the threads are interchangeable: they are given their requests in the
\* order of the numbering
ConcInit ==
    \E n \in {1, 2} :
        \E pick \in [1..MaxThreads -> DOMAIN ConcRequests(n)] :
            /\ \A t, u \in 1..MaxThreads : t < u => pick[t] <= pick[u]
            /\ chats = [i \in 1..n |-> OldRow(i)]
            /\ disk = [p \in Paths |-> IF p <= n THEN OldIndex ELSE NoIndex]
            /\ idCount = n
            /\ pathCount = n
            /\ active_sessions = EmptyTable
            /\ clock = 0
            /\ requests = 0
            /\ asked = [i \in 1..MaxIds |-> <<>>]
            /\ call = NoCall
            /\ columns = AllColumns
            /\ inflight = [t \in 1..MaxThreads |-> ConcRequests(n)[pick[t]]]
            /\ notes = EmptyTable

Th(t) == inflight[t]

\* thread t goes on with the locals next
Moves(t, next) == inflight' = [inflight EXCEPT ![t] = next]

Goes(t, pc) == Moves(t, [Th(t) EXCEPT !.pc = pc])

\* the statement thread t has executed; status 0: the request goes on
Says(t, status) ==
    call' = [op |-> Th(t).op, thread |-> t, session_id |-> Th(t).session_id,
             pc |-> Th(t).pc, status |-> status]

\* the request of thread t returns
Done(t, status) == Moves(t, Idle) /\ Says(t, status)

\* get_session returns: to the client, or to chat which called it
GsEnd(t, status) ==
    IF Th(t).op = "chat"
    THEN Goes(t, "ch_recheck") /\ Says(t, 0)
    ELSE Done(t, status)

\* get_session: session_data = storage_manager.get_chat_session(session_id)
GsRead ==
    \E t \in Threads :
        LET session_data == get_chat_session(chats, Th(t).session_id)
        IN  /\ Th(t).pc = "gs_read"
            /\ IF session_data = NoSession
               THEN GsEnd(t, 404)
               ELSE /\ Moves(t, [Th(t) EXCEPT !.session_data = session_data,
                                              !.pc = "gs_cached"])
                    /\ Says(t, 0)
            /\ UNCHANGED <<chats, active_sessions, disk, idCount, pathCount, clock, requests, asked, columns, notes>>

\* get_session: if session_id in active_sessions
GsCached ==
    \E t \in Threads :
        /\ Th(t).pc = "gs_cached"
        /\ IF Th(t).session_id \in DOMAIN active_sessions
           THEN GsEnd(t, 200)
           ELSE Goes(t, "gs_exists") /\ Says(t, 0)
        /\ UNCHANGED <<chats, active_sessions, disk, idCount, pathCount, clock, requests, asked, columns, notes>>

\* get_session: if not vectorstore_path or not os.path.exists(vectorstore_path)
GsExists ==
    \E t \in Threads :
        LET vectorstore_path == Th(t).session_data.vectorstore_path
        IN  /\ Th(t).pc = "gs_exists"
            /\ IF vectorstore_path = NoPath \/ disk[vectorstore_path] = NoIndex
               THEN GsEnd(t, 200)
               ELSE Goes(t, "gs_load") /\ Says(t, 0)
            /\ UNCHANGED <<chats, active_sessions, disk, idCount, pathCount, clock, requests, asked, columns, notes>>

\* get_session: FAISS.load_local, get_llm_instance, get_conversation_chain;
\* load_local raises when the file is gone
GsLoad ==
    \E t \in Threads :
        LET session_data == Th(t).session_data
            vectorstore == disk[session_data.vectorstore_path]
            model_selection == IF Contains(session_data.title, Local)
                               THEN LocalModel ELSE GoogleModel
            llm == get_llm_instance(model_selection, NoKey, EnvOk)
            model_type_slug == IF Contains(model_selection, Local)
                               THEN "local" ELSE "google"
            entry == CacheEntry(vectorstore,
                         get_conversation_chain(vectorstore, llm, model_type_slug))
        IN  /\ Th(t).pc = "gs_load"
            /\ IF vectorstore = NoIndex
               THEN GsEnd(t, 200)
               ELSE /\ Moves(t, [Th(t) EXCEPT !.entry = entry, !.pc = "gs_insert"])
                    /\ Says(t, 0)
            /\ UNCHANGED <<chats, active_sessions, disk, idCount, pathCount, clock, requests, asked, columns, notes>>

\* get_session: active_sessions[session_id] = {...}
GsInsert ==
    \E t \in Threads :
        /\ Th(t).pc = "gs_insert"
        /\ active_sessions' = CachePut(active_sessions, Th(t).session_id, Th(t).entry)
        /\ GsEnd(t, 200)
        /\ UNCHANGED <<chats, disk, idCount, pathCount, clock, requests, asked, columns, notes>>

\* chat: if session_id not in active_sessions: get_session(session_id)
ChCached ==
    \E t \in Threads :
        /\ Th(t).pc = "ch_cached"
        /\ IF Th(t).session_id \in DOMAIN active_sessions
           THEN Goes(t, "ch_entry")
           ELSE Goes(t, "gs_read")
        /\ Says(t, 0)
        /\ UNCHANGED <<chats, active_sessions, disk, idCount, pathCount, clock, requests, asked, columns, notes>>

\* chat: if session_id not in active_sessions (after the load): 400
ChRecheck ==
    \E t \in Threads :
        /\ Th(t).pc = "ch_recheck"
        /\ IF Th(t).session_id \in DOMAIN active_sessions
           THEN Goes(t, "ch_entry") /\ Says(t, 0)
           ELSE Done(t, 400)
        /\ UNCHANGED <<chats, active_sessions, disk, idCount, pathCount, clock, requests, asked, columns, notes>>

\* chat: conversation_chain = active_sessions[session_id]['conversation'];
\* a missing key raises and the request ends with 500
ChEntry ==
    \E t \in Threads :
        /\ Th(t).pc = "ch_entry"
        /\ IF Th(t).session_id \in DOMAIN active_sessions
           THEN /\ Moves(t, [Th(t) EXCEPT !.entry = active_sessions[Th(t).session_id],
                                          !.pc = "ch_read"])
                /\ Says(t, 0)
           ELSE Done(t, 500)
        /\ UNCHANGED <<chats, active_sessions, disk, idCount, pathCount, clock, requests, asked, columns, notes>>

\* chat: session_data = storage_manager.get_chat_session(session_id), then
\* conversation_chain.invoke; session_data None raises at .get
ChRead ==
    \E t \in Threads :
        LET session_data == get_chat_session(chats, Th(t).session_id)
        IN  /\ Th(t).pc = "ch_read"
            /\ IF session_data = NoSession
               THEN Done(t, 500)
               ELSE /\ Moves(t, [Th(t) EXCEPT !.session_data = session_data,
                                              !.pc = "ch_save"])
                    /\ Says(t, 0)
            /\ UNCHANGED <<chats, active_sessions, disk, idCount, pathCount, clock, requests, asked, columns, notes>>

\* the save of chat appending its two messages to the history the store
\* holds at the time of the save.
ChSave_history_reread ==
    \E t \in Threads :
        LET session_id == Th(t).session_id
            session_data == Th(t).session_data
            current == get_chat_session(chats, session_id)
            chat_history == IF current = NoSession THEN session_data.chat_history
                            ELSE current.chat_history
            user_message == [role |-> "user", content |-> ConcQuery, timestamp |-> clock]
            bot_message == [role |-> "bot",
                            content |-> Invoke(Th(t).entry.conversation, ConcQuery,
                                               session_data.chat_history),
                            timestamp |-> Tick(clock)]
            extended == chat_history \o <<user_message, bot_message>>
            title == IF Len(extended) < 3 THEN Take(ConcQuery, 50) ELSE session_data.title
            current_time == Tick(Tick(clock))
            saved == save_chat_session(chats, session_id, title, extended,
                                       session_data.uploaded_files,
                                       session_data.vectorstore_path,
                                       current_time, idCount + 1)
        IN  /\ Th(t).pc = "ch_save"
            /\ chats' = saved.chats
            /\ idCount' = IF SaveGenerates(chats, session_id) THEN idCount + 1 ELSE idCount
            /\ clock' = Tick(current_time)
            /\ asked' = [asked EXCEPT ![session_id] = Append(@, ConcQuery)]
            /\ Done(t, 200)
            /\ UNCHANGED <<active_sessions, disk, pathCount, requests, columns, notes>>

\* chat: the two messages are appended to the history that was read and
\* storage_manager.save_chat_session writes it
ChSave ==
    \E t \in Threads :
        LET session_id == Th(t).session_id
            session_data == Th(t).session_data
            user_message == [role |-> "user", content |-> ConcQuery, timestamp |-> clock]
            bot_message == [role |-> "bot",
                            content |-> Invoke(Th(t).entry.conversation, ConcQuery,
                                               session_data.chat_history),
                            timestamp |-> Tick(clock)]
            extended == session_data.chat_history \o <<user_message, bot_message>>
            title == IF Len(extended) < 3 THEN Take(ConcQuery, 50) ELSE session_data.title
            current_time == Tick(Tick(clock))
            saved == save_chat_session(chats, session_id, title, extended,
                                       session_data.uploaded_files,
                                       session_data.vectorstore_path,
                                       current_time, idCount + 1)
        IN  /\ Th(t).pc = "ch_save"
            /\ chats' = saved.chats
            /\ idCount' = IF SaveGenerates(chats, session_id) THEN idCount + 1 ELSE idCount
            /\ clock' = Tick(current_time)
            /\ asked' = [asked EXCEPT ![session_id] = Append(@, ConcQuery)]
            /\ Done(t, 200)
            /\ UNCHANGED <<active_sessions, disk, pathCount, requests, columns, notes>>

\* process_documents: the text is extracted and the index built, then the
\* stored index path of the session is read, or a new file name generated
PdPath ==
    \E t \in Threads :
        LET session_id == Th(t).session_id
            session_data == get_chat_session(chats, session_id)
            found == session_id # NoId /\ session_data # NoSession
            stored_path == IF found THEN session_data.vectorstore_path ELSE NoPath
        IN  /\ Th(t).pc = "pd_path"
            /\ stored_path = NoPath => pathCount < MaxPaths
            /\ pathCount' = IF stored_path = NoPath THEN pathCount + 1 ELSE pathCount
            /\ Moves(t, [Th(t) EXCEPT
                   !.path = IF stored_path = NoPath THEN pathCount + 1 ELSE stored_path,
                   !.pc = "pd_persist"])
            /\ Says(t, 0)
            /\ UNCHANGED <<chats, active_sessions, disk, idCount, clock, requests, asked, columns, notes>>

\* process_documents: vectorstore.save_local(vectorstore_path)
PdPersist ==
    \E t \in Threads :
        LET vectorstore == create_vectorstore(extract_pdf_text(ConcFiles).text)
        IN  /\ Th(t).pc = "pd_persist"
            /\ disk' = [disk EXCEPT ![Th(t).path] = vectorstore]
            /\ Goes(t, "pd_title")
            /\ Says(t, 0)
            /\ UNCHANGED <<chats, active_sessions, idCount, pathCount, clock, requests, asked, columns, notes>>

\* process_documents: get_llm_instance, then the title of the stored session
\* is read, and the chain is built
PdTitle ==
    \E t \in Threads :
        LET session_id == Th(t).session_id
            session_data == get_chat_session(chats, session_id)
            found == session_id # NoId /\ session_data # NoSession
            session_title == IF found THEN session_data.title
                             ELSE ChatWith \o Take(Join(FileNames(ConcFiles), CommaSpace), 50) \o Dots
        IN  /\ Th(t).pc = "pd_title"
            /\ Moves(t, [Th(t) EXCEPT !.title = session_title, !.pc = "pd_save"])
            /\ Says(t, 0)
            /\ UNCHANGED <<chats, active_sessions, disk, idCount, pathCount, clock, requests, asked, columns, notes>>

\* process_documents: session_id = storage_manager.save_chat_session(...)
PdSave ==
    \E t \in Threads :
        LET session_id == Th(t).session_id
            saved == save_chat_session(chats, session_id, Th(t).title, <<>>,
                                       FileNames(ConcFiles), Th(t).path,
                                       clock, idCount + 1)
        IN  /\ Th(t).pc = "pd_save"
            /\ chats' = saved.chats
            /\ idCount' = IF SaveGenerates(chats, session_id) THEN idCount + 1 ELSE idCount
            /\ clock' = Tick(clock)
            /\ Moves(t, [Th(t) EXCEPT !.saved_id = saved.id, !.pc = "pd_cache"])
            /\ Says(t, 0)
            /\ UNCHANGED <<active_sessions, disk, pathCount, requests, asked, columns, notes>>

\* process_documents: active_sessions[session_id] = {...}
PdCache ==
    \E t \in Threads :
        LET vectorstore == create_vectorstore(extract_pdf_text(ConcFiles).text)
            llm == get_llm_instance(GoogleModel, NoKey, EnvOk)
            conversation_chain == get_conversation_chain(vectorstore, llm, "google")
        IN  /\ Th(t).pc = "pd_cache"
            /\ active_sessions' = CachePut(active_sessions, Th(t).saved_id,
                                           CacheEntry(vectorstore, conversation_chain))
            /\ Done(t, 200)
            /\ UNCHANGED <<chats, disk, idCount, pathCount, clock, requests, asked, columns, notes>>

\* delete_session: session_data = storage_manager.get_chat_session(session_id)
DlRead ==
    \E t \in Threads :
        /\ Th(t).pc = "dl_read"
        /\ Moves(t, [Th(t) EXCEPT
               !.session_data = get_chat_session(chats, Th(t).session_id),
               !.pc = "dl_remove"])
        /\ Says(t, 0)
        /\ UNCHANGED <<chats, active_sessions, disk, idCount, pathCount, clock, requests, asked, columns, notes>>

\* delete_session: os.remove(vectorstore_path) if the session has a file
DlRemove ==
    \E t \in Threads :
        LET session_data == Th(t).session_data
            vectorstore_path == session_data.vectorstore_path
        IN  /\ Th(t).pc = "dl_remove"
            /\ disk' = IF /\ session_data # NoSession
                          /\ vectorstore_path # NoPath
                          /\ disk[vectorstore_path] # NoIndex
                       THEN [disk EXCEPT ![vectorstore_path] = NoIndex]
                       ELSE disk
            /\ Goes(t, "dl_cached")
            /\ Says(t, 0)
            /\ UNCHANGED <<chats, active_sessions, idCount, pathCount, clock, requests, asked, columns, notes>>

\* delete_session: if session_id in active_sessions
DlCached ==
    \E t \in Threads :
        /\ Th(t).pc = "dl_cached"
        /\ IF Th(t).session_id \in DOMAIN active_sessions
           THEN Goes(t, "dl_del")
           ELSE Goes(t, "dl_store")
        /\ Says(t, 0)
        /\ UNCHANGED <<chats, active_sessions, disk, idCount, pathCount, clock, requests, asked, columns, notes>>

\* delete_session: del active_sessions[session_id]; a missing key raises and
\* the request ends with 500
DlDel ==
    \E t \in Threads :
        /\ Th(t).pc = "dl_del"
        /\ IF Th(t).session_id \in DOMAIN active_sessions
           THEN /\ active_sessions' = CacheDel(active_sessions, Th(t).session_id)
                /\ Goes(t, "dl_store")
                /\ Says(t, 0)
           ELSE /\ UNCHANGED active_sessions
                /\ Done(t, 500)
        /\ UNCHANGED <<chats, disk, idCount, pathCount, clock, requests, asked, columns, notes>>

\* delete_session: success = storage_manager.delete_chat_session(session_id)
DlStore ==
    \E t \in Threads :
        LET r == delete_chat_session(chats, Th(t).session_id)
        IN  /\ Th(t).pc = "dl_store"
            /\ chats' = r.chats
            /\ Done(t, IF r.ret THEN 200 ELSE 404)
            /\ UNCHANGED <<active_sessions, disk, idCount, pathCount, clock, requests, asked, columns, notes>>

\* rename_session: storage_manager.rename_chat_session(session_id, new_title)
RnUpdate ==
    \E t \in Threads :
        LET r == rename_chat_session(chats, Th(t).session_id, Local)
        IN  /\ Th(t).pc = "rn_update"
            /\ chats' = r.chats
            /\ Done(t, IF r.ret THEN 200 ELSE 404)
            /\ UNCHANGED <<active_sessions, disk, idCount, pathCount, clock, requests, asked, columns, notes>>

ConcNext ==
    \/ GsRead \/ GsCached \/ GsExists \/ GsLoad \/ GsInsert
    \/ ChCached \/ ChRecheck \/ ChEntry \/ ChRead \/ ChSave
    \/ PdPath \/ PdPersist \/ PdTitle \/ PdSave \/ PdCache
    \/ DlRead \/ DlRemove \/ DlCached \/ DlDel \/ DlStore
    \/ RnUpdate

ConcSpec == ConcInit /\ [][ConcNext]_vars

\* ------------------------------------------ claims on interleaved requests
\* thread t has loaded the index of its session and built a chain on it
Constructed(t) == Th(t).pc = "gs_insert"

\* C13: two concurrent lazy loads of one uncached session id do not both
\* load its index and construct a chain: no two requests in flight hold an
\* entry they built for the same id.
C13_OneLoadPerUncachedId ==
    \A t, u \in Threads :
        (t # u /\ Constructed(t) /\ Constructed(u))
            => Th(t).session_id # Th(u).session_id

\* the sessions a request works on: the one it names and the one it created
Own(t) == {Th(t).session_id, Th(t).saved_id}

\* the step is a statement of the request of thread t
StepOf(t) == call'.thread = t /\ Th(t) # Idle

\* C14: under any interleaving, a statement of a chat, process, rename,
\* delete or load request on session A leaves the record and the cache entry
\* of every other session B as they were.
C14_OtherSessionsUntouched ==
    [][\A t \in Threads : StepOf(t) =>
        /\ \A B \in DOMAIN chats \ Own(t) :
               B \in DOMAIN chats' /\ chats'[B] = chats[B]
        /\ \A B \in DOMAIN active_sessions \ Own(t) :
               B \in DOMAIN active_sessions' /\ active_sessions'[B] = active_sessions[B]]_vars

\* a delete of session 1 has removed its record while session 2, renamed and
\* loaded by the other request, keeps its record and its cache entry
C14_Witness ==
    /\ call.op = "delete_session"
    /\ call.pc = "dl_store"
    /\ call.session_id = 1
    /\ call.status = 200
    /\ DOMAIN chats = {2}
    /\ \E t \in Threads : Th(t) # Idle /\ Th(t).op = "chat" /\ Th(t).session_id = 2 /\ Th(t).pc = "ch_read"
    /\ 2 \in DOMAIN active_sessions

\* ------------------------------------------------------------------ PdfSpec
\* An upload batch given to PDFProcessor.extract_pdf_text, and to
\* process_documents on a new installation: every batch of up to MaxFiles
\* files of every kind.
MaxFiles == 3      \* files in one upload batch

Name(c) == <<c, ".", "p", "d", "f">>

\* a file with text, a file whose pages hold no text, an encrypted file, a
\* file of zero bytes, a file that is no PDF, and the part a browser sends
\* for a file input in which nothing was chosen
PdfValid == [filename |-> Name("v"), kind |-> "ok", text |-> <<"1">>]
PdfScanned == [filename |-> Name("s"), kind |-> "ok", text |-> <<>>]
PdfEncrypted == [filename |-> Name("e"), kind |-> "encrypted", text |-> <<>>]
PdfEmpty == [filename |-> Name("z"), kind |-> "empty", text |-> <<>>]
PdfCorrupt == [filename |-> Name("c"), kind |-> "corrupt", text |-> <<>>]
PdfUnnamed == [filename |-> <<>>, kind |-> "empty", text |-> <<>>]

PdfFiles == {PdfValid, PdfScanned, PdfEncrypted, PdfEmpty, PdfCorrupt, PdfUnnamed}

Batches == UNION {[1..n -> PdfFiles] : n \in 0..MaxFiles}

PdfInit ==
    /\ chats = EmptyTable
    /\ active_sessions = EmptyTable
    /\ disk = [p \in Paths |-> NoIndex]
    /\ idCount = 0
    /\ pathCount = 0
    /\ clock = 0
    /\ requests = 0
    /\ asked = [i \in 1..MaxIds |-> <<>>]
    /\ columns = AllColumns
    /\ inflight = NoThreads
    /\ notes = EmptyTable
    /\ \E pdf_docs \in Batches : call = [op |-> "upload", pdf_docs |-> pdf_docs]

\* raw_text, metadata = pdf_processor.extract_pdf_text(files)
ExtractPdfText ==
    /\ call.op = "upload"
    /\ call' = [op |-> "extract_pdf_text", pdf_docs |-> call.pdf_docs,
                ret |-> extract_pdf_text(call.pdf_docs)]
    /\ UNCHANGED <<chats, active_sessions, disk, idCount, pathCount, clock, requests, asked, columns, inflight, notes>>

\* POST /api/process with the batch and no session id; the index can fail to
\* build once there is text
Upload ==
    \E fault \in {"none", "build"} :
        LET form == [files |-> call.pdf_docs, model |-> GoogleModel, custom_api_key |-> NoKey]
            r == process_documents(State, NoId, form, EnvOk, fault)
        IN  /\ call.op = "upload"
            /\ fault = "build" => call.pdf_docs = <<PdfScanned>>
            /\ Apply(r.st)
            /\ call' = [op |-> "process_documents", pdf_docs |-> call.pdf_docs,
                        fault |-> fault, status |-> r.status, ret |-> r.ret,
                        body |-> r.body]
            /\ UNCHANGED <<requests, asked, notes>>

PdfNext == ExtractPdfText \/ Upload

PdfSpec == PdfInit /\ [][PdfNext]_vars

\* ----------------------------------------------------- claims on the batch
\* what the outcome of opening and reading one file is recorded as
ExpectedStatus(pdf) ==
    IF pdf.kind \in {"encrypted", "empty"} THEN "skipped"
    ELSE IF pdf.kind = "corrupt" THEN "failed"
    ELSE "success"

Succeeds(pdf) == ExpectedStatus(pdf) = "success"

\* the texts of the files, each followed by a blank line
RECURSIVE Aggregate(_)
Aggregate(files) ==
    IF files = <<>> THEN <<>>
    ELSE Head(files).text \o <<"\n", "\n">> \o Aggregate(Tail(files))

\* C16: extract_pdf_text returns one result per input file, in input order,
\* with status skipped for an encrypted or empty file, failed for any other
\* extraction error and success for a readable file; the aggregate text is
\* the text of the successful files only; the batch (encrypted, valid,
\* corrupt) yields skipped, success, failed and non-empty text.
C16_OneResultPerFileInOrder ==
    call.op = "extract_pdf_text" =>
        LET pdf_docs == call.pdf_docs
            metadata == call.ret.metadata
        IN  /\ Len(metadata) = Len(pdf_docs)
            /\ \A i \in DOMAIN pdf_docs :
                   /\ metadata[i].filename = pdf_docs[i].filename
                   /\ metadata[i].status = ExpectedStatus(pdf_docs[i])
            /\ call.ret.text = Aggregate(SelectSeq(pdf_docs, Succeeds))
            /\ pdf_docs = <<PdfEncrypted, PdfValid, PdfCorrupt>> =>
                   /\ [i \in 1..3 |-> metadata[i].status] = <<"skipped", "success", "failed">>
                   /\ call.ret.text # <<>>

\* the batch of an encrypted, a valid and a corrupt file has been extracted
C16_Witness ==
    /\ call.op = "extract_pdf_text"
    /\ call.pdf_docs = <<PdfEncrypted, PdfValid, PdfCorrupt>>
    /\ Len(call.ret.metadata) = 3
    /\ call.ret.text = <<"1", "\n", "\n">>

NoSuccess(files) == \A i \in DOMAIN files : ~Succeeds(files[i])

\* some file of the batch has a name: the batch passes the test on the
\* selection
Selected(files) == \E i \in DOMAIN files : files[i].filename # <<>>

GenerationFailed ==
    /\ call'.op = "chat"
    /\ call'.invoked
    /\ ~call'.gen_ok

\* C19: when the text generation fails during a chat request, the request
\* ends with an error, no turn is stored, the title and last_updated of the
\* session (its whole record) are unchanged, and the session's cache entry
\* is kept.
C19_FailedGenerationStoresNothing ==
    [][GenerationFailed =>
        /\ call'.status = 500
        /\ call'.ret = Raised
        /\ chats' = chats
        /\ asked' = asked
        /\ call'.session_id \in DOMAIN active_sessions'
        /\ call'.session_id \in DOMAIN active_sessions =>
               active_sessions'[call'.session_id] = active_sessions[call'.session_id]]_vars

\* generation failed in a request that had loaded the session itself, on a
\* session with an answered question
C19_Witness ==
    /\ call.op = "chat"
    /\ ~call.gen_ok
    /\ call.status = 500
    /\ call.load = "loaded"
    /\ call.session_id \in DOMAIN active_sessions
    /\ Len(Stored(call.session_id).chat_history) = 2
    /\ asked[call.session_id] # <<>>

\* C20: every turn stored in a session's history has a role in {user,
\* assistant}, content and a timestamp, and the history is made of pairs of
\* one user turn followed by one assistant turn.
C20_TurnsAreUserAssistantPairs ==
    \A id \in DOMAIN chats :
        LET chat_history == Stored(id).chat_history
        IN  /\ \A i \in DOMAIN chat_history :
                   /\ DOMAIN chat_history[i] = {"role", "content", "timestamp"}
                   /\ chat_history[i].role \in {"user", "assistant"}
            /\ Len(chat_history) % 2 = 0
            /\ \A i \in DOMAIN chat_history :
                   chat_history[i].role = IF i % 2 = 1 THEN "user" ELSE "assistant"

\* --------------------------------- claims on processing and rehydration
\* the upload that was processed last for session id: the uploaded files of
\* the record are written by process_documents only, and the uploads of a
\* run differ in their files
LastForm(id) == CHOOSE f \in Forms : FileNames(f.files) = Stored(id).uploaded_files

\* the last request loaded its session into the cache
LazilyLoaded ==
    \/ call.op = "get_session" /\ call.outcome = "loaded"
    \/ call.op = "chat" /\ call.load = "loaded"

\* C21: a session that is lazily loaded into the cache gets a chain bound to
\* the model and the prompt with which its documents were processed last:
\* the local model and the strict prompt, or the Google model and the
\* default prompt.
C21_LoadedWithProcessedModel ==
    LazilyLoaded =>
        LET model == LastForm(call.session_id).model
            conversation == active_sessions[call.session_id].conversation
        IN  /\ conversation.llm = get_llm_instance(model, NoKey, EnvOk)
            /\ conversation.prompt = IF Contains(model, Local) THEN "strict" ELSE "default"

\* the index built from the upload that was processed last for session id
LastIndex(id) == create_vectorstore(extract_pdf_text(LastForm(id).files).text)

\* C22: a successful upload to a session leaves in the cache a chain bound
\* to the index built from that upload, and every chat request answered on
\* the session afterwards is answered from that index, never from another.
C22_AnsweredFromLastUpload ==
    /\ (call.op = "process_documents" /\ call.status = 200) =>
           /\ active_sessions[call.ret].vectorstore = LastIndex(call.ret)
           /\ active_sessions[call.ret].conversation.vectorstore = LastIndex(call.ret)
    /\ (call.op = "chat" /\ call.status = 200) =>
           call.ret.content = LastIndex(call.session_id).texts

\* the last request was an upload that succeeded
Processed == call.op = "process_documents" /\ call.status = 200

\* C23: when process_documents returns success with session id S, the store
\* has a record S whose index path is a file that holds the index built from
\* the upload and whose uploaded files are the names of the uploaded files
\* in upload order, and the cache has an entry for S bound to that index.
C23_ProcessedSessionIsStoredAndCached ==
    Processed =>
        /\ call.ret \in DOMAIN chats
        /\ call.ret \in DOMAIN active_sessions
        /\ Stored(call.ret).uploaded_files = call.files
        /\ Stored(call.ret).vectorstore_path \in Paths
        /\ disk[Stored(call.ret).vectorstore_path] = LastIndex(call.ret)
        /\ active_sessions[call.ret].vectorstore = disk[Stored(call.ret).vectorstore_path]
        /\ active_sessions[call.ret].conversation.vectorstore =
               disk[Stored(call.ret).vectorstore_path]

\* two files were uploaded to a session of the store, whose id had no record
\* left: the upload is stored and cached under the id returned
C23_Witness ==
    /\ Processed
    /\ Len(call.files) = 2
    /\ call.session_id \in KnownIds
    /\ call.ret # call.session_id
    /\ call.ret \in DOMAIN active_sessions
    /\ Stored(call.ret).uploaded_files = call.files

\* the step is a successful upload
ProcessedNow == call'.op = "process_documents" /\ call'.status = 200

\* the index paths of the records other than id
PathsOfOthers(db, id) == {db[i].vectorstore_path : i \in DOMAIN db \ {id}}

\* C24: re-processing a session that has a record with an index path keeps
\* its id, its title and its index path, no path is allocated and the new
\* index is written to the file at the path; processing with no session id,
\* or for an id without a record or without an index path, allocates a new
\* index path that no record used before and no other record uses.
C24_ReprocessKeepsIdTitlePath ==
    [][ProcessedNow =>
        IF /\ call'.session_id \in DOMAIN chats
           /\ Stored(call'.session_id).vectorstore_path # NoPath
        THEN /\ call'.ret = call'.session_id
             /\ DOMAIN chats' = DOMAIN chats
             /\ StoredAfter(call'.ret).title = Stored(call'.ret).title
             /\ StoredAfter(call'.ret).vectorstore_path = Stored(call'.ret).vectorstore_path
             /\ pathCount' = pathCount
             /\ disk'[Stored(call'.ret).vectorstore_path] = active_sessions'[call'.ret].vectorstore
             /\ \A p \in Paths \ {Stored(call'.ret).vectorstore_path} : disk'[p] = disk[p]
        ELSE /\ StoredAfter(call'.ret).vectorstore_path = pathCount + 1
             /\ pathCount' = pathCount + 1
             /\ \A i \in DOMAIN chats : chats[i].vectorstore_path # pathCount + 1
             /\ pathCount + 1 \notin PathsOfOthers(chats', call'.ret)
             /\ disk[pathCount + 1] = NoIndex
             /\ disk'[pathCount + 1] = active_sessions'[call'.ret].vectorstore]_vars

\* a session of an earlier version, stored without an index path, was
\* processed: it kept its id and got the first index path of the store
C24_Witness ==
    /\ Processed
    /\ call.session_id = 1
    /\ call.ret = 1
    /\ pathCount = 1
    /\ Stored(1).vectorstore_path = 1
    /\ Stored(1).title = OldRow(NoPath).title
    /\ disk[1] # NoIndex

\* ------------------------------------------- claims on what chat writes
\* the step is a chat request on a session that has a record
ChatOnStored == call'.op = "chat" /\ call'.session_id \in DOMAIN chats

\* C25: a chat request changes the title of the session only when the
\* stored history was empty before it, and then the title becomes the first
\* 50 characters of the query; on a session with turns the title stays, so
\* once the first question of a session has been answered no chat request
\* overwrites its title.
C25_ChatRetitlesFirstTurnOnly ==
    [][ChatOnStored =>
        /\ call'.session_id \in DOMAIN chats'
        /\ StoredAfter(call'.session_id).title =
               IF call'.status = 200 /\ Stored(call'.session_id).chat_history = <<>>
               THEN Take(call'.query, 50)
               ELSE Stored(call'.session_id).title
        /\ asked[call'.session_id] # <<>> =>
               StoredAfter(call'.session_id).title = Stored(call'.session_id).title]_vars

\* C26: a chat request never changes the uploaded files, the index path or
\* created_at of its session (nor any other record): after any number of
\* chat requests they are as the last upload left them.
C26_ChatKeepsFilesPathCreated ==
    [][ChatOnStored =>
        /\ DOMAIN chats' = DOMAIN chats
        /\ StoredAfter(call'.session_id).uploaded_files = Stored(call'.session_id).uploaded_files
        /\ StoredAfter(call'.session_id).vectorstore_path = Stored(call'.session_id).vectorstore_path
        /\ StoredAfter(call'.session_id).created_at = Stored(call'.session_id).created_at
        /\ \A i \in DOMAIN chats \ {call'.session_id} : chats'[i] = chats[i]]_vars

\* the second question of a session with two uploaded files was answered
C26_Witness ==
    /\ call.op = "chat"
    /\ call.status = 200
    /\ Len(Stored(call.session_id).chat_history) = 4
    /\ Len(Stored(call.session_id).uploaded_files) = 2
    /\ Stored(call.session_id).created_at < Stored(call.session_id).last_updated

\* ------------------------------------------------ claims on timestamps
\* the step is a call of save_chat_session
Saved == call'.op = "save_chat_session"

\* C27: every save sets last_updated of the saved session to the time of
\* the save and leaves created_at as it was (the time of the save for a new
\* record); in every state created_at <= last_updated, no call makes
\* last_updated of a record smaller, and the session saved last is first in
\* the listing (no record has a later last_updated, and whenever the others
\* are older every listing starts with it).  The clock does not run
\* backwards.
C27_SaveRefreshesLastUpdated ==
    [][/\ Saved =>
           /\ StoredAfter(call'.ret).last_updated = call'.current_time
           /\ StoredAfter(call'.ret).created_at =
                  IF call'.ret \in DOMAIN chats
                  THEN Stored(call'.ret).created_at
                  ELSE call'.current_time
           /\ \A i \in DOMAIN chats' : chats'[i].last_updated <= call'.current_time
           /\ (\A i \in DOMAIN chats' \ {call'.ret} :
                   chats'[i].last_updated < call'.current_time) =>
                  \A sessions \in get_all_chat_sessions(chats') :
                      sessions[1].key = call'.ret
       /\ \A i \in DOMAIN chats' : chats'[i].created_at <= chats'[i].last_updated
       /\ \A i \in DOMAIN chats \cap DOMAIN chats' :
              chats[i].last_updated <= chats'[i].last_updated]_vars

\* the older of two sessions was saved again and is now the later one
C27_Witness ==
    /\ call.op = "save_chat_session"
    /\ call.session_id = 1
    /\ call.ret = 1
    /\ DOMAIN chats = {1, 2}
    /\ Stored(1).created_at < Stored(2).created_at
    /\ Stored(2).last_updated < Stored(1).last_updated
    /\ \A sessions \in get_all_chat_sessions(chats) : sessions[1].key = 1

\* ------------------------------------------- claims on the cache miss
\* the step is a chat request, with a query, on a session that is stored
\* but not cached and whose index file is on disk, and the index and the
\* model load
MissThatLoads ==
    /\ ChatOnStored
    /\ call'.query # <<>>
    /\ call'.session_id \notin DOMAIN active_sessions
    /\ Stored(call'.session_id).vectorstore_path # NoPath
    /\ disk[Stored(call'.session_id).vectorstore_path] # NoIndex
    /\ call'.load = "loaded"

ChainInvoked == call'.op = "chat" /\ call'.invoked

\* C29: the chain is invoked with the whole stored turn sequence of the
\* session as it was before the request, in stored order, the turns of the
\* user as HumanMessage and the answer turns as AIMessage, each with its
\* content; the query is the separate input and is no part of that
\* history.
C29_ChainGetsWholeStoredHistory ==
    [][ChainInvoked =>
        LET stored == Stored(call'.session_id).chat_history
            passed == call'.passed
        IN  /\ passed.input = call'.query
            /\ Len(passed.chat_history) = Len(stored)
            /\ \A i \in 1..Len(stored) :
                   /\ passed.chat_history[i].content = stored[i].content
                   /\ passed.chat_history[i].class =
                          IF stored[i].role = "user" THEN "HumanMessage"
                          ELSE "AIMessage"]_vars

\* a second question was asked with the first pair of turns as history
C29_Witness ==
    /\ call.op = "chat"
    /\ call.status = 200
    /\ Len(call.passed.chat_history) = 2
    /\ call.passed.chat_history[1].class = "HumanMessage"
    /\ call.passed.chat_history[2].class = "AIMessage"
    /\ call.passed.input = call.query
    /\ Len(Stored(call.session_id).chat_history) = 4

\* ------------------------------------ claims on the cache under threads
\* C30: every id in the cache has a record in the store
C30_CachedSessionsAreStored == DOMAIN active_sessions \subseteq DOMAIN chats

\* --------------------------------------------- claims on deleted sessions
\* the step is a statement of a chat or process_documents request on an id
\* the client sent and whose record is gone: every such id was stored at
\* the start, so a delete_session on it has returned success
OnDeleted ==
    /\ call'.op \in {"chat", "process_documents"}
    /\ call'.session_id # NoId
    /\ call'.session_id \notin DOMAIN chats

\* C31: no statement of a request on a deleted session adds a record to
\* the store
C31_DeletedStaysDeleted ==
    [][OnDeleted => DOMAIN chats' \subseteq DOMAIN chats]_vars

\* ---------------------------------------------------------------- RaceSpec
\* The handlers of ConcSpec with all the requests in flight on the same
\* session: the store holds one session, the cache is empty, and every
\* request is one that writes the store (a chat on a session that is not
\* cached runs the statements of get_session).
MaxRacers == 3    \* requests in flight on the session

\* the requests on session 1 that write the store, numbered: chat,
\* process_documents, delete_session and rename_session
RaceRequests == [k \in 1..4 |-> ConcRequests(1)[k]]

RaceInit ==
    \E pick \in [1..MaxRacers -> DOMAIN RaceRequests] :
        /\ \A t, u \in 1..MaxRacers : t < u => pick[t] <= pick[u]
        /\ chats = [i \in 1..1 |-> OldRow(i)]
        /\ disk = [p \in Paths |-> IF p = 1 THEN OldIndex ELSE NoIndex]
        /\ idCount = 1
        /\ pathCount = 1
        /\ active_sessions = EmptyTable
        /\ clock = 0
        /\ requests = 0
        /\ asked = [i \in 1..MaxIds |-> <<>>]
        /\ call = NoCall
        /\ columns = AllColumns
        /\ inflight = [t \in 1..MaxRacers |-> RaceRequests[pick[t]]]
        /\ notes = EmptyTable

RaceSpec == RaceInit /\ [][ConcNext]_vars

\* -------------------------------------------------- claims on index paths
\* the records of the store that hold the index path p
RecordsWithPath(p) == {id \in DOMAIN chats : chats[id].vectorstore_path = p}

\* C32: no two records of the store hold the same index path
C32_OneRecordPerIndexPath ==
    \A p \in Paths : Cardinality(RecordsWithPath(p)) <= 1

\* ------------------------------------- claims on the cache and the disk
\* the index persisted for the stored session id
PersistedIndex(id) == disk[Stored(id).vectorstore_path]

\* C33: the index of every cache entry is the index persisted at the index
\* path of the session's record
C33_CacheIsDerivable ==
    \A id \in DOMAIN active_sessions :
        /\ id \in DOMAIN chats
        /\ Stored(id).vectorstore_path # NoPath
        /\ active_sessions[id].vectorstore = PersistedIndex(id)
        /\ active_sessions[id].conversation.vectorstore = PersistedIndex(id)

\* the step is a process_documents request on a stored session that ended
\* in an error
FailedOnStored ==
    /\ call'.op = "process_documents"
    /\ call'.status # 200
    /\ call'.session_id \in DOMAIN chats

\* C34: a process_documents request on a stored session that ends in an
\* error leaves the record of the session, its cache entry and the index
\* persisted at its index path as they were.
C34_FailedProcessLeavesSession ==
    [][FailedOnStored =>
        LET id == call'.session_id
        IN  /\ id \in DOMAIN chats'
            /\ chats'[id] = chats[id]
            /\ id \in DOMAIN active_sessions' <=> id \in DOMAIN active_sessions
            /\ id \in DOMAIN active_sessions =>
                   active_sessions'[id] = active_sessions[id]
            /\ Stored(id).vectorstore_path # NoPath =>
                   disk'[Stored(id).vectorstore_path] = PersistedIndex(id)]_vars

\* ------------------------------------------- claims on concurrent chats
\* the step is the save of a chat request that succeeds on a session that
\* is stored
ChatSaves ==
    /\ call'.op = "chat"
    /\ call'.status = 200
    /\ call'.session_id \in DOMAIN chats

\* C35 as stated: the save of a successful chat keeps every turn the
\* session holds at that moment and adds its own pair, so the pair of a
\* chat that ran at the same time and saved first is not lost.
C35_NoTurnLost ==
    [][ChatSaves =>
        /\ call'.session_id \in DOMAIN chats'
        /\ IsPrefix(Stored(call'.session_id).chat_history,
                    StoredAfter(call'.session_id).chat_history)
        /\ Len(StoredAfter(call'.session_id).chat_history) =
               Len(Stored(call'.session_id).chat_history) + 2]_vars

\* what the request of the step read from the store before it saved
ReadBySaver == inflight[call'.thread].session_data

\* C35, amended: the last writer wins.  The save of a successful chat
\* stores the history its request read, followed by its own pair of
\* turns, whatever the session holds at that moment, together with the
\* file list and the index path its request read; the other records are
\* left alone.
C35_LastChatSaveWins ==
    [][ChatSaves =>
        LET id == call'.session_id
            after == StoredAfter(id)
        IN  /\ DOMAIN chats' = DOMAIN chats
            /\ \A other \in DOMAIN chats \ {id} : chats'[other] = chats[other]
            /\ Len(after.chat_history) = Len(ReadBySaver.chat_history) + 2
            /\ IsPrefix(ReadBySaver.chat_history, after.chat_history)
            /\ after.chat_history[Len(after.chat_history) - 1].role = "user"
            /\ after.chat_history[Len(after.chat_history) - 1].content = ConcQuery
            /\ after.chat_history[Len(after.chat_history)].role = "bot"
            /\ after.uploaded_files = ReadBySaver.uploaded_files
            /\ after.vectorstore_path = ReadBySaver.vectorstore_path]_vars

\* two chats on session 1 have both succeeded and the session holds the
\* pair of one of them only, after the pair it held at the start
C35_Witness ==
    /\ call.op = "chat"
    /\ call.status = 200
    /\ call.session_id = 1
    /\ Len(asked[1]) = 2
    /\ 1 \in DOMAIN chats
    /\ Len(Stored(1).chat_history) = 4
    /\ \A t \in Threads : Th(t) = Idle

\* ----------------------------------------------------------- WorkspaceSpec
\* export_workspace and import_workspace of PersistentStorageManager on a
\* store of notes and chat sessions as add_note and save_chat_session
\* write them.
MaxNotes == 1      \* notes in the store

NoteTitles == {<<"A">>, <<"B">>}

\* PersistentStorageManager.add_note: the row INSERTed under the new id,
\* created_at left to its default CURRENT_TIMESTAMP
add_note(db, title, content, tags, folder, current_timestamp, note_id) ==
    [i \in DOMAIN db \cup {note_id} |->
        IF i = note_id
        THEN [title |-> title, content |-> content, tags |-> json_dumps(tags),
              created_at |-> current_timestamp, folder |-> folder]
        ELSE db[i]]

\* the orders in which ORDER BY created_at DESC can return the notes
NoteOrders(db) ==
    {o \in [1..Cardinality(DOMAIN db) -> DOMAIN db] :
        /\ \A i, j \in DOMAIN o : i # j => o[i] # o[j]
        /\ \A i, j \in DOMAIN o :
               i < j => db[o[i]].created_at >= db[o[j]].created_at}

\* PersistentStorageManager.get_all_notes: the lists it can return, every
\* row as a dict with its tags decoded
get_all_notes(db) ==
    {[n \in DOMAIN o |->
         [id |-> o[n], title |-> db[o[n]].title, content |-> db[o[n]].content,
          tags |-> json_loads(db[o[n]].tags), created_at |-> db[o[n]].created_at,
          folder |-> db[o[n]].folder]] : o \in NoteOrders(db)}

\* the keys of the dict get_all_chat_sessions returns
SessionKeys(db) ==
    {sessions[n].key : n \in 1..Cardinality(DOMAIN db), sessions \in get_all_chat_sessions(db)}

\* PersistentStorageManager.export_workspace: the strings it can return,
\* the notes and, under its id, every session get_chat_session returns
export_workspace(notes_db, chats_db) ==
    {json_dumps([notes |-> all_notes,
                 chat_sessions |-> [session_id \in SessionKeys(chats_db) |->
                                       get_chat_session(chats_db, session_id)]]) :
        all_notes \in get_all_notes(notes_db)}

\* PersistentStorageManager.import_workspace: the data is parsed, both
\* tables are emptied, and the two loops over the notes and the sessions to
\* import have the body `pass`
import_workspace(notes_db, chats_db, import_data) ==
    LET data == json_loads(import_data)
        notes_to_import == data.notes
        chat_sessions_to_import == data.chat_sessions
    IN  [notes |-> EmptyTable, chats |-> EmptyTable, ret |-> TRUE]

\* the rows save_chat_session can have written under id i
WorkspaceRows(i) ==
    {InsertRow(EmptyTable, i, title, json_dumps(history), json_dumps(<<<<"a">>>>), path, 0)[i] :
        title \in NoteTitles,
        history \in {<<>>, <<StoreTurn("user", 0), StoreTurn("bot", 0)>>},
        path \in {NoPath} \cup ({i} \cap Paths)}

WorkspaceInit ==
    \E n \in 0..MaxIds, k \in 0..MaxNotes :
        \E rows \in [1..n -> UNION {WorkspaceRows(i) : i \in 1..n}],
           titles \in [1..k -> NoteTitles] :
            /\ \A i \in 1..n : rows[i] \in WorkspaceRows(i)
            /\ chats = rows
            /\ notes = [i \in 1..k |->
                           add_note(EmptyTable, titles[i], <<"c">>, <<<<"t">>>>,
                                    <<"G", "e", "n", "e", "r", "a", "l">>, 0, i)[i]]
            /\ disk = [p \in Paths |->
                          IF \E i \in 1..n : rows[i].vectorstore_path = p
                          THEN OldIndex ELSE NoIndex]
            /\ idCount = n
            /\ pathCount = n
            /\ active_sessions = EmptyTable
            /\ clock = 0
            /\ requests = 0
            /\ asked = [i \in 1..MaxIds |-> <<>>]
            /\ call = NoCall
            /\ columns = AllColumns
            /\ inflight = NoThreads

ExportWorkspace ==
    \E data \in export_workspace(notes, chats) :
        /\ call.op # "export_workspace"
        /\ call' = [op |-> "export_workspace", ret |-> data]
        /\ UNCHANGED <<chats, notes, active_sessions, disk, idCount, pathCount, clock, requests, asked, columns, inflight>>

\* the workspace is imported from the string export_workspace has just
\* returned
ImportWorkspace ==
    LET r == import_workspace(notes, chats, call.ret)
    IN  /\ call.op = "export_workspace"
        /\ chats' = r.chats
        /\ notes' = r.notes
        /\ call' = [op |-> "import_workspace", import_data |-> call.ret, ret |-> r.ret]
        /\ UNCHANGED <<active_sessions, disk, idCount, pathCount, clock, requests, asked, columns, inflight>>

WorkspaceNext == ExportWorkspace \/ ImportWorkspace

WorkspaceSpec == WorkspaceInit /\ [][WorkspaceNext]_vars

\* ------------------------------------------- claims on export and import
\* C36: importing what export_workspace has just returned answers true and
\* leaves the store with the same chat sessions and the same notes.
C36_ExportImportRoundTrip ==
    [][call'.op = "import_workspace" =>
        /\ call'.ret = TRUE
        /\ chats' = chats
        /\ notes' = notes]_vars
====
